---- MODULE Spec2Model ----
(***************************************************************************)
(* A model of fgr, a parallel file finder: the expression tree and its     *)
(* normal forms (parse/expression_node.rs), the evaluator                  *)
(* (evaluate/expression_node_impl.rs), the Tseitin transformation over     *)
(* Nnf (evaluate/nnf.rs, evaluate/tseitin.rs), the expression parser       *)
(* (parse/mod.rs), the producer/consumer pipeline (run.rs, main.rs) and    *)
(* the filter literals (parse/attribute_token.rs, evaluate/filter_impl.rs).*)
(*                                                                         *)
(* Values.  An ExpressionNode is a tuple                                   *)
(*     <<"Leaf", id, cmp>> | <<"And", l, r>> | <<"Or", l, r>> | <<"Not", e>>*)
(* where a leaf stands for a Filter: id names the filter's attribute and   *)
(* value, cmp is its Comparison.  An Nnf is a tuple                        *)
(*     <<"Var", name, polarity>> | <<"And", set>> | <<"Or", set>>.         *)
(***************************************************************************)
EXTENDS Integers, Sequences, FiniteSets, TLC

VARIABLES
    \* ---- expression algebra and evaluator
    stack,      \* ExpressionNodes under construction (the last is the top)
    nleaf,      \* leaves created so far; the k-th leaf has id k
    nsize,      \* nodes created so far
    phase,      \* "build" | "nnf" | "cnf" | "eval"
    expr,       \* the finished expression
    nnf,        \* to_nnf(expr)
    cnf,        \* to_cnf(nnf)
    entry,      \* the directory entry: filter id -> outcome of its comparison
    evres,      \* the result of evaluate(expr, entry) with its leaf trace
    \* ---- Tseitin transformation
    nstack,     \* Nnf values under construction
    nnodes,     \* Nnf nodes created so far
    tphase,     \* "build" | "done" | "again"
    tin,        \* the input of transform
    tout,       \* what transform returned
    taux,       \* the calls of the aux factory that transform made
    tagain,     \* what transform returned when given tout
    \* ---- parser
    toks,       \* the input, a sequence of tokens
    pphase,     \* "type" | "parsed"
    parsed,     \* the result of parse_root
    \* ---- pipeline
    mainPc,     \* main(): "config" | "walk" | "join" | "exited"
    cfg,        \* what Config::build and the flags gave: "none" | "err" | "tree" | "run"
    print0,     \* config.print0 (run.rs reads it; the option is --print0)
    exitCode,   \* the process exit code, -1 while the process runs
    status,     \* ProcessStatus
    chan,       \* the messages queued in the channel
    prod,       \* producer -> [pc, cur, seen, late]: position, current entry,
                \* the status the callback last read, and the messages sent
                \* while status was not InProgress
    unvisited,  \* entries the walker has yet to yield
    evald,      \* <<entry, outcome, walk state>> of every finished callback
    cons,       \* consumer thread: "none" | "check" | "recv" | "ret0" | "ret1" | "panicked"
    recvd,      \* the messages the consumer received
    stdout,     \* the entries whose path was written to stdout
    pending,    \* stdout's LineWriter holds bytes it has not passed down
    writeFailed,\* a write_line_sep to stdout returned an error
    consLate,   \* the messages the consumer received while status was not
                \* InProgress
    sig,        \* signal handler: "idle" | "set" (between its two locks)
    handlerRuns,\* invocations of the handler
    \* ---- one filter literal: its parse and its evaluation on one entry
    lop,        \* "none" | "size" | "time" | "owner" | "ext" | "negate"
    lin,        \* the literal as written and the entry's attributes
    lout,       \* what the parser and the evaluator gave
    \* ---- ExecutionManager and the operators of Nnf
    mphase,     \* "none" | "new" | "transformed" | "again" | "panicked"
    mfilters,   \* ExecutionManager.filters
    mroot,      \* ExecutionManager.root
    mcounter,   \* ExecutionManager.counter
    nop         \* the last application of | or &: <<op, self, rhs, output>>

exprVars == <<stack, nleaf, nsize, phase, expr, nnf, cnf, entry, evres>>
tseitinVars == <<nstack, nnodes, tphase, tin, tout, taux, tagain>>
parseVars == <<toks, pphase, parsed>>
pipeVars ==
    <<mainPc, cfg, print0, exitCode, status, chan, prod, unvisited, evald,
      cons, recvd, stdout, pending, writeFailed, sig, handlerRuns, consLate>>
leafVars == <<lop, lin, lout>>
mgrVars == <<mphase, mfilters, mroot, mcounter, nop>>
vars == <<exprVars, tseitinVars, parseVars, pipeVars, leafVars, mgrVars>>

Nil == <<"Nil">>

(***************************************************************************)
(* Bounds of the model.                                                    *)
(***************************************************************************)
MaxNodes == 7
\* the largest expression that is written by repetition
MaxCnfNodes == 2047
EvalMaxNodes == 5

(***************************************************************************)
(* Comparison (parse/comparison.rs, evaluate/comparison_impl.rs).          *)
(***************************************************************************)
Comparison == {"Lt", "Gt", "Lte", "Gte", "Eq", "Neq"}

\* std::cmp::Ordering of the entry's attribute against the filter's value
Ordering == {"Less", "Equal", "Greater"}

\* Comparison::evaluate(left, right), given how left compares to right
Comparison_evaluate(c, ord) ==
    CASE c = "Lt" -> ord = "Less"
      [] c = "Gt" -> ord = "Greater"
      [] c = "Lte" -> ord \in {"Less", "Equal"}
      [] c = "Gte" -> ord \in {"Greater", "Equal"}
      [] c = "Eq" -> ord = "Equal"
      [] c = "Neq" -> ord # "Equal"

\* a negation that mirrors the comparison instead of complementing it
Comparison_negate_Mirrored(c) ==
    CASE c = "Lt" -> "Gt"
      [] c = "Gt" -> "Lt"
      [] c = "Lte" -> "Gte"
      [] c = "Gte" -> "Lte"
      [] c = "Eq" -> "Neq"
      [] c = "Neq" -> "Eq"

Comparison_negate(c) ==
    CASE c = "Lt" -> "Gte"
      [] c = "Gt" -> "Lte"
      [] c = "Lte" -> "Gt"
      [] c = "Gte" -> "Lt"
      [] c = "Eq" -> "Neq"
      [] c = "Neq" -> "Eq"

(***************************************************************************)
(* ExpressionNode (parse/expression_node.rs).                              *)
(***************************************************************************)
Leaf(id, c) == <<"Leaf", id, c>>
And(l, r) == <<"And", l, r>>
Or(l, r) == <<"Or", l, r>>
Not(e) == <<"Not", e>>

Kind(n) == n[1]

\* Filter::negate: the filter keeps its attribute and value, its comparison
\* is negated
Filter_negate(leaf) == Leaf(leaf[2], Comparison_negate(leaf[3]))

RECURSIVE negate(_)
negate(n) ==
    CASE Kind(n) = "Leaf" -> Filter_negate(n)
      [] Kind(n) = "And" -> Or(negate(n[2]), negate(n[3]))
      [] Kind(n) = "Or" -> And(negate(n[2]), negate(n[3]))
      [] Kind(n) = "Not" -> n[2]

RECURSIVE to_nnf_NoDeMorgan(_)
\* a to_nnf that keeps the operator when it pushes a negation inwards
to_nnf_NoDeMorgan(n) ==
    CASE Kind(n) = "Leaf" -> n
      [] Kind(n) = "And" -> And(to_nnf_NoDeMorgan(n[2]), to_nnf_NoDeMorgan(n[3]))
      [] Kind(n) = "Or" -> Or(to_nnf_NoDeMorgan(n[2]), to_nnf_NoDeMorgan(n[3]))
      [] Kind(n) = "Not" ->
            LET m == n[2] IN
            CASE Kind(m) = "Leaf" -> Filter_negate(m)
              [] Kind(m) = "And" ->
                    And(to_nnf_NoDeMorgan(negate(m[2])), to_nnf_NoDeMorgan(negate(m[3])))
              [] Kind(m) = "Or" ->
                    And(to_nnf_NoDeMorgan(negate(m[2])), to_nnf_NoDeMorgan(negate(m[3])))
              [] Kind(m) = "Not" -> to_nnf_NoDeMorgan(m[2])

RECURSIVE to_nnf_Shallow(_)
\* a to_nnf that negates the operands of a negated operator and stops there
to_nnf_Shallow(n) ==
    CASE Kind(n) = "Leaf" -> n
      [] Kind(n) = "And" -> And(to_nnf_Shallow(n[2]), to_nnf_Shallow(n[3]))
      [] Kind(n) = "Or" -> Or(to_nnf_Shallow(n[2]), to_nnf_Shallow(n[3]))
      [] Kind(n) = "Not" ->
            LET m == n[2] IN
            CASE Kind(m) = "Leaf" -> Filter_negate(m)
              [] Kind(m) = "And" -> Or(negate(m[2]), negate(m[3]))
              [] Kind(m) = "Or" -> And(negate(m[2]), negate(m[3]))
              [] Kind(m) = "Not" -> to_nnf_Shallow(m[2])

RECURSIVE to_nnf(_)
to_nnf(n) ==
    CASE Kind(n) = "Leaf" -> n
      [] Kind(n) = "And" -> And(to_nnf(n[2]), to_nnf(n[3]))
      [] Kind(n) = "Or" -> Or(to_nnf(n[2]), to_nnf(n[3]))
      [] Kind(n) = "Not" ->
            LET m == n[2] IN
            CASE Kind(m) = "Leaf" -> Filter_negate(m)
              [] Kind(m) = "And" -> Or(to_nnf(negate(m[2])), to_nnf(negate(m[3])))
              [] Kind(m) = "Or" -> And(to_nnf(negate(m[2])), to_nnf(negate(m[3])))
              [] Kind(m) = "Not" -> to_nnf(m[2])

\* distribute_or(left, right): <<TRUE, node>> for Ok(node), <<FALSE, node>> for
\* Err(node)
\* a distribute_or that loses a conjunct of the right operand
distribute_or_DropsRight(left, right) ==
    CASE Kind(left) = "And" /\ Kind(right) = "And" ->
            <<TRUE, And(And(Or(left[2], right[2]), Or(left[2], right[2])),
                        And(Or(left[3], right[2]), Or(left[3], right[2])))>>
      [] Kind(left) = "And" /\ Kind(right) = "Or" ->
            <<TRUE, And(Or(left[2], Or(right[2], right[3])),
                        Or(left[3], Or(right[2], right[3])))>>
      [] Kind(left) = "And" /\ Kind(right) = "Leaf" ->
            <<TRUE, And(Or(left[2], right), Or(left[3], right))>>
      [] Kind(left) = "Or" /\ Kind(right) = "And" ->
            <<TRUE, And(Or(right[2], Or(left[2], left[3])),
                        Or(right[3], Or(left[2], left[3])))>>
      [] Kind(left) = "Leaf" /\ Kind(right) = "And" ->
            <<TRUE, And(Or(right[2], left), Or(right[3], left))>>
      [] OTHER -> <<FALSE, Or(left, right)>>

RECURSIVE distribute_or(_, _)
distribute_or(left, right) ==
    CASE Kind(left) = "And" /\ Kind(right) = "And" ->
            <<TRUE, And(And(Or(left[2], right[2]), Or(left[2], right[3])),
                        And(Or(left[3], right[2]), Or(left[3], right[3])))>>
      [] Kind(left) = "And" /\ Kind(right) = "Or" ->
            <<TRUE, And(Or(left[2], Or(right[2], right[3])),
                        Or(left[3], Or(right[2], right[3])))>>
      [] Kind(left) = "And" /\ Kind(right) = "Leaf" ->
            <<TRUE, And(Or(left[2], right), Or(left[3], right))>>
      [] Kind(left) = "Or" /\ Kind(right) = "And" -> distribute_or(right, left)
      [] Kind(left) = "Leaf" /\ Kind(right) = "And" -> distribute_or(right, left)
      [] OTHER -> <<FALSE, Or(left, right)>>

\* count is a u8
U8Mod == 256

\* to_cnf_step(self, count): <<node, count>>.  It is called on Not-free trees
\* only (a Not is unimplemented!()).
RECURSIVE to_cnf_step(_, _)
to_cnf_step(n, count) ==
    CASE Kind(n) = "Leaf" -> <<n, count>>
      [] Kind(n) = "And" ->
            LET L == to_cnf_step(n[2], count)
                R == to_cnf_step(n[3], L[2])
            IN  <<And(L[1], R[1]), R[2]>>
      [] Kind(n) = "Or" ->
            LET L == to_cnf_step(n[2], count)
                R == to_cnf_step(n[3], L[2])
                D == distribute_or(L[1], R[1])
            IN  IF D[1] THEN <<D[2], (R[2] + 1) % U8Mod>> ELSE <<D[2], R[2]>>

RECURSIVE to_cnf(_)
to_cnf(root) ==
    LET S == to_cnf_step(root, 0)
    IN  IF S[2] > 0 THEN to_cnf(S[1]) ELSE S[1]

\* The number of distributions that fire in one pass over n: what count
\* would hold after to_cnf_step(n, 0) if it were not a u8.
RECURSIVE rewrites(_)
rewrites(n) ==
    CASE Kind(n) = "Leaf" -> 0
      [] Kind(n) = "And" -> rewrites(n[2]) + rewrites(n[3])
      [] Kind(n) = "Or" ->
            LET L == to_cnf_step(n[2], 0)
                R == to_cnf_step(n[3], 0)
            IN  rewrites(n[2]) + rewrites(n[3])
                    + (IF distribute_or(L[1], R[1])[1] THEN 1 ELSE 0)

\* `*count += 1` on a u8 that holds 255: a panic in a build with overflow
\* checks, a wrap to 0 in a build without them
Overflow == <<"Panic", "attempt to add with overflow">>

\* some pass of to_cnf(root) increments count past 255
RECURSIVE overflows(_)
overflows(root) ==
    LET S == to_cnf_step(root, 0)
    IN  \/ rewrites(root) >= U8Mod
        \/ S[2] > 0 /\ overflows(S[1])

\* what to_cnf(root) gives in the builds of the program
to_cnf_outcomes(root) ==
    IF overflows(root) THEN {Overflow, to_cnf(root)} ELSE {to_cnf(root)}

(***************************************************************************)
(* Evaluate for ExpressionNode (evaluate/expression_node_impl.rs).  A      *)
(* result is <<"Ok", b>> or <<"Err", kind>>; evaluate returns the result   *)
(* with the sequence of the filters it evaluated, in order.                *)
(***************************************************************************)
Ok(b) == <<"Ok", b>>
Err(k) == <<"Err", k>>
IsErr(r) == r[1] = "Err"

ErrorKinds == {"IoError"}
Outcomes == Ordering \cup ErrorKinds

\* Filter::evaluate of a comparison filter: the entry's accessor fails, or
\* the comparison is evaluated
Filter_evaluate(leaf, e) ==
    IF e[leaf[2]] \in Ordering
    THEN Ok(Comparison_evaluate(leaf[3], e[leaf[2]]))
    ELSE Err(e[leaf[2]])

RECURSIVE evaluate_Eager(_, _)
\* an evaluator without short circuit: both operands are always evaluated
evaluate_Eager(n, e) ==
    CASE Kind(n) = "Leaf" -> <<Filter_evaluate(n, e), <<n[2]>>>>
      [] Kind(n) = "And" ->
            LET L == evaluate_Eager(n[2], e)
                R == evaluate_Eager(n[3], e)
            IN  IF IsErr(L[1]) THEN <<L[1], L[2] \o R[2]>>
                ELSE IF IsErr(R[1]) THEN <<R[1], L[2] \o R[2]>>
                ELSE <<Ok(L[1][2] /\ R[1][2]), L[2] \o R[2]>>
      [] Kind(n) = "Or" ->
            LET L == evaluate_Eager(n[2], e)
                R == evaluate_Eager(n[3], e)
            IN  IF IsErr(L[1]) THEN <<L[1], L[2] \o R[2]>>
                ELSE IF IsErr(R[1]) THEN <<R[1], L[2] \o R[2]>>
                ELSE <<Ok(L[1][2] \/ R[1][2]), L[2] \o R[2]>>
      [] Kind(n) = "Not" ->
            LET X == evaluate_Eager(n[2], e)
            IN  IF IsErr(X[1]) THEN X ELSE <<Ok(~X[1][2]), X[2]>>

RECURSIVE evaluate(_, _)
evaluate(n, e) ==
    CASE Kind(n) = "Leaf" -> <<Filter_evaluate(n, e), <<n[2]>>>>
      [] Kind(n) = "And" ->
            LET L == evaluate(n[2], e)
            IN  IF IsErr(L[1]) \/ ~L[1][2] THEN L
                ELSE LET R == evaluate(n[3], e) IN <<R[1], L[2] \o R[2]>>
      [] Kind(n) = "Or" ->
            LET L == evaluate(n[2], e)
            IN  IF IsErr(L[1]) \/ L[1][2] THEN L
                ELSE LET R == evaluate(n[3], e) IN <<R[1], L[2] \o R[2]>>
      [] Kind(n) = "Not" ->
            LET X == evaluate(n[2], e)
            IN  IF IsErr(X[1]) THEN X ELSE <<Ok(~X[1][2]), X[2]>>

(***************************************************************************)
(* The expression machine: an expression is built bottom-up on a stack,    *)
(* leaves numbered left to right, then normalised or evaluated.            *)
(***************************************************************************)
LeafCmps == {"Eq", "Lt"}
EvalCmps == {"Eq"}
EvalOutcomes == {"Less", "Equal", "IoError"}
\* a tree of n nodes has at most (n + 1) / 2 leaves
EvalLeaves == (EvalMaxNodes + 1) \div 2

ExprInit ==
    /\ stack = <<>>
    /\ nleaf = 0
    /\ nsize = 0
    /\ phase = "build"
    /\ expr = Nil
    /\ nnf = Nil
    /\ cnf = Nil
    /\ evres = Nil

Top == stack[Len(stack)]
Below == stack[Len(stack) - 1]
Pop(k) == SubSeq(stack, 1, Len(stack) - k)

\* Every tree on the stack but the first needs one more binary node to be
\* joined: a step is taken only if the expression can still be finished
\* within maxNodes nodes.
Fits(maxNodes, newLen) == nsize + 1 + (newLen - 1) <= maxNodes

PushLeaf(c, maxNodes) ==
    /\ phase = "build"
    /\ Fits(maxNodes, Len(stack) + 1)
    /\ nleaf' = nleaf + 1
    /\ nsize' = nsize + 1
    /\ stack' = Append(stack, Leaf(nleaf + 1, c))
    /\ UNCHANGED <<phase, expr, nnf, cnf, entry, evres>>
    /\ UNCHANGED <<tseitinVars, parseVars, pipeVars, leafVars, mgrVars>>

MkAnd ==
    /\ phase = "build"
    /\ Len(stack) >= 2
    /\ nsize' = nsize + 1
    /\ stack' = Append(Pop(2), And(Below, Top))
    /\ UNCHANGED <<nleaf, phase, expr, nnf, cnf, entry, evres>>
    /\ UNCHANGED <<tseitinVars, parseVars, pipeVars, leafVars, mgrVars>>

MkOr ==
    /\ phase = "build"
    /\ Len(stack) >= 2
    /\ nsize' = nsize + 1
    /\ stack' = Append(Pop(2), Or(Below, Top))
    /\ UNCHANGED <<nleaf, phase, expr, nnf, cnf, entry, evres>>
    /\ UNCHANGED <<tseitinVars, parseVars, pipeVars, leafVars, mgrVars>>

MkNot(maxNodes) ==
    /\ phase = "build"
    /\ Len(stack) >= 1
    /\ Fits(maxNodes, Len(stack))
    /\ nsize' = nsize + 1
    /\ stack' = Append(Pop(1), Not(Top))
    /\ UNCHANGED <<nleaf, phase, expr, nnf, cnf, entry, evres>>
    /\ UNCHANGED <<tseitinVars, parseVars, pipeVars, leafVars, mgrVars>>

\* The expression written twice and joined by `and`: the parser gives
\* And(e, e).  The count of nodes stays the true one.
Twice ==
    /\ phase = "build"
    /\ Len(stack) = 1
    /\ 2 * nsize + 1 <= MaxCnfNodes
    /\ nsize' = 2 * nsize + 1
    /\ stack' = <<And(Top, Top)>>
    /\ UNCHANGED <<nleaf, phase, expr, nnf, cnf, entry, evres>>
    /\ UNCHANGED <<tseitinVars, parseVars, pipeVars, leafVars, mgrVars>>

\* node.to_nnf()
ToNnf ==
    /\ phase = "build"
    /\ Len(stack) = 1
    /\ expr' = Top
    /\ nnf' = to_nnf(Top)
    /\ phase' = "nnf"
    /\ stack' = <<>>
    /\ UNCHANGED <<nleaf, nsize, cnf, entry, evres>>
    /\ UNCHANGED <<tseitinVars, parseVars, pipeVars, leafVars, mgrVars>>

\* nnf.to_cnf()
ToCnf ==
    /\ phase = "nnf"
    /\ cnf' \in to_cnf_outcomes(nnf)
    /\ phase' = "cnf"
    /\ UNCHANGED <<stack, nleaf, nsize, expr, nnf, entry, evres>>
    /\ UNCHANGED <<tseitinVars, parseVars, pipeVars, leafVars, mgrVars>>

\* root.evaluate(&entry)
Evaluate ==
    /\ phase = "build"
    /\ Len(stack) = 1
    /\ expr' = Top
    /\ evres' = evaluate(Top, entry)
    /\ phase' = "eval"
    /\ stack' = <<>>
    /\ UNCHANGED <<nleaf, nsize, nnf, cnf, entry>>
    /\ UNCHANGED <<tseitinVars, parseVars, pipeVars, leafVars, mgrVars>>

(***************************************************************************)
(* Nnf (evaluate/nnf.rs).  Children are a BTreeSet: a set here, iterated   *)
(* in the order of the derived Ord.                                        *)
(***************************************************************************)
NumVars == 2
MaxNnfNodes == 5
MaxArity == 2

Nnf_Var(v, p) == <<"Var", v, p>>
Nnf_And(S) == <<"And", S>>
Nnf_Or(S) == <<"Or", S>>

\* FilterVar (evaluate/execution_manager.rs)
FilterVar_new_var(id, weight) == <<"Var", id, weight>>
FilterVar_new_aux(id) == <<"Aux", id>>
FilterVar_id(v) == v[2]
FilterVar_is_aux(v) == v[1] = "Aux"
FilterVar_is_var(v) == ~FilterVar_is_aux(v)

\* usize::partial_cmp
usize_cmp(l, r) == IF l < r THEN "Less" ELSE IF l = r THEN "Equal" ELSE "Greater"

\* PartialOrd for FilterVar
FilterVar_partial_cmp(l, r) ==
    CASE l[1] = "Var" /\ r[1] = "Var" ->
            IF l[3] # r[3] THEN usize_cmp(l[3], r[3]) ELSE usize_cmp(l[2], r[2])
      [] l[1] = "Var" /\ r[1] = "Aux" -> "Greater"
      [] l[1] = "Aux" /\ r[1] = "Var" -> "Less"
      [] l[1] = "Aux" /\ r[1] = "Aux" -> usize_cmp(l[2], r[2])

\* V: Ord.  The names are integers, as in the tests of the transformer,
\* until an ExecutionManager is built: its names are FilterVars.
V_lt(l, r) ==
    IF mphase = "none" THEN l < r ELSE FilterVar_partial_cmp(l, r) = "Less"

\* the order of the variants in the enum
Rank(n) == CASE Kind(n) = "Var" -> 0 [] Kind(n) = "And" -> 1 [] Kind(n) = "Or" -> 2

\* #[derive(Ord)] for Nnf<V>: by variant, then Var by (name, polarity) and
\* And/Or by their sets, compared as sorted sequences
RECURSIVE NnfLess(_, _)
RECURSIVE SetLess(_, _)
RECURSIVE MinOf(_)
NnfLess(a, b) ==
    IF Rank(a) # Rank(b) THEN Rank(a) < Rank(b)
    ELSE IF Kind(a) = "Var"
         THEN \/ V_lt(a[2], b[2])
              \/ a[2] = b[2] /\ ~a[3] /\ b[3]
         ELSE SetLess(a[2], b[2])

MinOf(S) == CHOOSE m \in S : \A o \in S \ {m} : NnfLess(m, o)

SetLess(X, Y) ==
    IF Y = {} THEN FALSE
    ELSE IF X = {} THEN TRUE
    ELSE LET mx == MinOf(X)
             my == MinOf(Y)
         IN  IF mx = my THEN SetLess(X \ {mx}, Y \ {my}) ELSE NnfLess(mx, my)

\* Not for Nnf: defined on Var only
Nnf_not(n) == Nnf_Var(n[2], ~n[3])

\* is_simple: And/Or whose children are Vars of pairwise distinct names
is_simple(n) ==
    \/ Kind(n) = "Var"
    \/ /\ \A c \in n[2] : Kind(c) = "Var"
       /\ \A c, d \in n[2] : c[2] = d[2] => c = d

is_clause(n) == Kind(n) = "Or" /\ is_simple(n)

is_cnf(n) == Kind(n) = "And" /\ \A c \in n[2] : is_clause(c)

has_inversions(n) ==
    /\ Kind(n) # "Var"
    /\ \E c \in n[2] : Nnf_not(c) \in n[2]

(***************************************************************************)
(* TseitinTransform (evaluate/tseitin.rs).  The transformer's state is     *)
(* [clauses, counter, ub]: the clause set, the aux factory's counter, and  *)
(* whether unreachable_unchecked() was reached.                            *)
(***************************************************************************)
AuxBase == NumVars + 1

\* the aux factory: var!(name) of the next unused name; the factory of
\* ExecutionManager::tseitin_transform gives var!(FilterVar::new_aux(counter))
Aux(T) ==
    IF mphase = "none" THEN Nnf_Var(T.counter, TRUE)
    ELSE Nnf_Var(FilterVar_new_aux(T.counter), TRUE)

\* the clauses process_node emits for the node it replaced by aux
Definition(node, aux) ==
    CASE Kind(node) = "And" /\ has_inversions(node) -> {Nnf_Or({Nnf_not(aux)})}
      [] Kind(node) = "Or" /\ has_inversions(node) -> {Nnf_Or({aux})}
      [] Kind(node) = "And" ->
            {Nnf_Or({Nnf_not(c) : c \in node[2]} \cup {aux})}
                \cup {Nnf_Or({Nnf_not(aux), c}) : c \in node[2]}
      [] Kind(node) = "Or" ->
            {Nnf_Or(node[2] \cup {Nnf_not(aux)})}
                \cup {Nnf_Or({Nnf_not(c), aux}) : c \in node[2]}

RECURSIVE process_node(_, _)
RECURSIVE process_children(_, _)
\* process_node(root): <<state, the Var that stands for root>>
process_node(T, root) ==
    IF Kind(root) = "Var" THEN <<T, root>>
    ELSE IF Cardinality(root[2]) = 1
    THEN \* processed_node is what the recursive call returned, a Var: the aux
         \* factory is called and the match reaches unreachable_unchecked()
         LET R == process_node(T, CHOOSE c \in root[2] : TRUE)
         IN  <<[R[1] EXCEPT !.counter = @ + 1, !.ub = TRUE], Aux(R[1])>>
    ELSE LET R == process_children(T, root[2])
             node == <<Kind(root), R[2]>>
             aux == Aux(R[1])
         IN  <<[R[1] EXCEPT !.counter = @ + 1,
                            !.clauses = @ \cup Definition(node, aux)],
               aux>>

\* children.into_iter().map(|child| self.process_node(child)), in set order
process_children(T, S) ==
    IF S = {} THEN <<T, {}>>
    ELSE LET m == MinOf(S)
             R == process_node(T, m)
             rest == process_children(R[1], S \ {m})
         IN  <<rest[1], {R[2]} \cup rest[2]>>

RECURSIVE process_required(_, _)
RECURSIVE process_required_all(_, _)
process_required(T, root) ==
    IF Kind(root) = "Var" THEN [T EXCEPT !.clauses = @ \cup {Nnf_Or({root})}]
    ELSE IF Cardinality(root[2]) = 1
    THEN process_required(T, CHOOSE c \in root[2] : TRUE)
    ELSE IF Kind(root) = "Or"
    THEN LET R == process_children(T, root[2])
             or == Nnf_Or(R[2])
         IN  IF has_inversions(or) THEN R[1]
             ELSE [R[1] EXCEPT !.clauses = @ \cup {or}]
    ELSE process_required_all(T, root[2])

\* children.into_iter().for_each(|child| self.process_required(child))
process_required_all(T, S) ==
    IF S = {} THEN T
    ELSE LET m == MinOf(S)
         IN  process_required_all(process_required(T, m), S \ {m})

\* TseitinTransform::new(aux_factory).transform(root), up to the return
transform_from(counter, root) ==
    process_required([clauses |-> {}, counter |-> counter, ub |-> FALSE], root)

transform(root) == transform_from(AuxBase, root)

\* What a build can do once unreachable_unchecked() was reached: abort, go
\* on as if the arm were empty, or go on with a clause set that is garbage.
Crash == <<"Crash">>
UbOutcomes(T) ==
    {Crash, Nnf_And(T.clauses), Nnf_And(T.clauses \cup {Nnf_And({})})}

(***************************************************************************)
(* The Tseitin machine: an Nnf is built bottom-up on a stack, then         *)
(* transformed.                                                            *)
(***************************************************************************)
TseitinInit ==
    /\ nstack = <<>>
    /\ nnodes = 0
    /\ tphase = "build"
    /\ tin = Nil
    /\ tout = Nil
    /\ taux = 0
    /\ tagain = Nil

PushVar(v, p) ==
    /\ tphase = "build"
    /\ nnodes < MaxNnfNodes
    /\ nnodes' = nnodes + 1
    /\ nstack' = Append(nstack, Nnf_Var(v, p))
    /\ UNCHANGED <<tphase, tin, tout, taux, tagain>>
    /\ UNCHANGED <<exprVars, parseVars, pipeVars, leafVars, mgrVars>>

TopK(k) == {nstack[i] : i \in (Len(nstack) - k + 1)..Len(nstack)}

WrapAnd(k) ==
    /\ tphase = "build"
    /\ nnodes < MaxNnfNodes
    /\ k <= Len(nstack)
    /\ nnodes' = nnodes + 1
    /\ nstack' = Append(SubSeq(nstack, 1, Len(nstack) - k), Nnf_And(TopK(k)))
    /\ UNCHANGED <<tphase, tin, tout, taux, tagain>>
    /\ UNCHANGED <<exprVars, parseVars, pipeVars, leafVars, mgrVars>>

WrapOr(k) ==
    /\ tphase = "build"
    /\ nnodes < MaxNnfNodes
    /\ k <= Len(nstack)
    /\ nnodes' = nnodes + 1
    /\ nstack' = Append(SubSeq(nstack, 1, Len(nstack) - k), Nnf_Or(TopK(k)))
    /\ UNCHANGED <<tphase, tin, tout, taux, tagain>>
    /\ UNCHANGED <<exprVars, parseVars, pipeVars, leafVars, mgrVars>>

\* transformer.transform(sentence)
Transform ==
    /\ tphase = "build"
    /\ Len(nstack) = 1
    /\ LET T == transform(nstack[1])
       IN  /\ tout' \in (IF T.ub THEN UbOutcomes(T) ELSE {Nnf_And(T.clauses)})
           /\ taux' = T.counter - AuxBase
    /\ tin' = nstack[1]
    /\ tphase' = "done"
    /\ nstack' = <<>>
    /\ UNCHANGED <<nnodes, tagain>>
    /\ UNCHANGED <<exprVars, parseVars, pipeVars, leafVars, mgrVars>>

\* transform(sentence.clone()) with a new transformer, as test_sanity does
TransformAgain ==
    /\ tphase = "done"
    /\ tout # Crash
    /\ LET T == transform(tout)
       IN  tagain' \in (IF T.ub THEN UbOutcomes(T) ELSE {Nnf_And(T.clauses)})
    /\ tphase' = "again"
    /\ UNCHANGED <<nstack, nnodes, tin, tout, taux>>
    /\ UNCHANGED <<exprVars, parseVars, pipeVars, leafVars, mgrVars>>

(***************************************************************************)
(* BitOr and BitAnd for Nnf (evaluate/nnf.rs), arm by arm.                 *)
(***************************************************************************)
bitor(self, rhs) ==
    CASE Kind(self) = "Var" /\ Kind(rhs) = "Var" -> Nnf_Or({self, rhs})
      [] Kind(self) = "Or" /\ Kind(rhs) = "Var" -> Nnf_Or(self[2] \cup {rhs})
      [] Kind(self) = "Var" /\ Kind(rhs) = "Or" -> Nnf_Or(rhs[2] \cup {self})
      [] Kind(self) = "Or" /\ Kind(rhs) = "And" -> Nnf_Or(self[2] \cup {rhs})
      [] Kind(self) = "And" /\ Kind(rhs) = "Or" -> Nnf_Or(rhs[2] \cup {self})
      [] Kind(self) = "Or" /\ Kind(rhs) = "Or" -> Nnf_Or(self[2] \cup rhs[2])
      [] Kind(self) = "Var" /\ Kind(rhs) = "And" -> Nnf_Or({self, rhs})
      [] Kind(self) = "And" /\ Kind(rhs) = "Var" -> Nnf_Or({self, rhs})
      [] Kind(self) = "And" /\ Kind(rhs) = "And" -> Nnf_Or({self, rhs})

\* an operator that flattens an operand of the other connective too
bitand_FlattensOr(self, rhs) ==
    CASE Kind(self) = "Var" /\ Kind(rhs) = "Var" -> Nnf_And({self, rhs})
      [] Kind(self) = "Var" -> Nnf_And(rhs[2] \cup {self})
      [] Kind(rhs) = "Var" -> Nnf_And(self[2] \cup {rhs})
      [] OTHER -> Nnf_And(self[2] \cup rhs[2])

bitand(self, rhs) ==
    CASE Kind(self) = "Var" /\ Kind(rhs) = "Var" -> Nnf_And({self, rhs})
      [] Kind(self) = "Var" /\ Kind(rhs) = "And" -> Nnf_And(rhs[2] \cup {self})
      [] Kind(self) = "And" /\ Kind(rhs) = "Var" -> Nnf_And(self[2] \cup {rhs})
      [] Kind(self) = "Var" /\ Kind(rhs) = "Or" -> Nnf_And({self, rhs})
      [] Kind(self) = "Or" /\ Kind(rhs) = "Var" -> Nnf_And({rhs, self})
      [] Kind(self) = "And" /\ Kind(rhs) = "And" -> Nnf_And(self[2] \cup rhs[2])
      [] Kind(self) = "And" /\ Kind(rhs) = "Or" -> Nnf_And(self[2] \cup {rhs})
      [] Kind(self) = "Or" /\ Kind(rhs) = "And" -> Nnf_And(rhs[2] \cup {self})
      [] Kind(self) = "Or" /\ Kind(rhs) = "Or" -> Nnf_And({self, rhs})

\* left | right, of the two values on top of the stack; the values stay
BitOr ==
    /\ tphase = "build"
    /\ nop = Nil
    /\ Len(nstack) >= 2
    /\ LET l == nstack[Len(nstack) - 1]
           r == nstack[Len(nstack)]
       IN  nop' = <<"BitOr", l, r, bitor(l, r)>>
    /\ UNCHANGED <<mphase, mfilters, mroot, mcounter>>
    /\ UNCHANGED <<exprVars, tseitinVars, parseVars, pipeVars, leafVars>>

\* left & right
BitAnd ==
    /\ tphase = "build"
    /\ nop = Nil
    /\ Len(nstack) >= 2
    /\ LET l == nstack[Len(nstack) - 1]
           r == nstack[Len(nstack)]
       IN  nop' = <<"BitAnd", l, r, bitand(l, r)>>
    /\ UNCHANGED <<mphase, mfilters, mroot, mcounter>>
    /\ UNCHANGED <<exprVars, tseitinVars, parseVars, pipeVars, leafVars>>

(***************************************************************************)
(* ExecutionManager (evaluate/execution_manager.rs).                       *)
(***************************************************************************)
\* Filter::weight of the filters in use: a name glob, a size, a file type
Weights == {1, 4, 16}

\* ExecutionManager::map(root, filters): <<the Nnf, filters>>.  weight gives
\* filter.weight() of each leaf.  A Not is unimplemented!(): the trees are
\* those of to_nnf, which leaves none.
RECURSIVE map(_, _, _)
map(root, filters, weight) ==
    CASE Kind(root) = "Leaf" ->
            <<Nnf_Var(FilterVar_new_var(Len(filters), weight[root[2]]), TRUE),
              Append(filters, root)>>
      [] Kind(root) = "And" ->
            LET L == map(root[2], filters, weight)
                R == map(root[3], L[2], weight)
            IN  <<bitand(L[1], R[1]), R[2]>>
      [] Kind(root) = "Or" ->
            LET L == map(root[2], filters, weight)
                R == map(root[3], L[2], weight)
            IN  <<bitor(L[1], R[1]), R[2]>>

\* a transform that returns the counter it was given
tseitin_transform_counter_Stale(before, after) == before

\* the counter tseitin_transform stores: the closure borrows the local
\* counter, so the struct gets the value the factory left
tseitin_transform_counter(before, after) == after

MgrInit ==
    /\ mphase = "none"
    /\ mfilters = <<>>
    /\ mroot = Nil
    /\ mcounter = 0
    /\ nop = Nil

\* ExecutionManager::new(nnf)
New ==
    /\ phase = "nnf"
    /\ mphase = "none"
    /\ \E weight \in [1..nleaf -> Weights] :
          LET M == map(nnf, <<>>, weight)
          IN  /\ mroot' = M[1]
              /\ mfilters' = M[2]
              /\ mcounter' = Len(M[2])
    /\ mphase' = "new"
    /\ UNCHANGED nop
    /\ UNCHANGED <<exprVars, tseitinVars, parseVars, pipeVars, leafVars>>

\* manager.tseitin_transform(); the assert!(root.is_cnf()) panics
TseitinTransform ==
    /\ mphase \in {"new", "transformed"}
    /\ LET T == transform_from(mcounter, mroot)
       IN  \E root \in (IF T.ub THEN UbOutcomes(T) ELSE {Nnf_And(T.clauses)}) :
               IF root = Crash \/ ~is_cnf(root)
               THEN /\ mphase' = "panicked"
                    /\ UNCHANGED <<mroot, mcounter>>
               ELSE /\ mphase' = (IF mphase = "new" THEN "transformed" ELSE "again")
                    /\ mroot' = root
                    /\ mcounter' = tseitin_transform_counter(mcounter, T.counter)
    /\ UNCHANGED <<mfilters, nop>>
    /\ UNCHANGED <<exprVars, tseitinVars, parseVars, pipeVars, leafVars>>

(***************************************************************************)
(* The expression parser (parse/mod.rs), over tokens: a leaf token stands  *)
(* for the text of one attribute, comparison and value, which              *)
(* parse_attribute accepts; the leaf at position i parses to the filter i. *)
(* A parser takes the input and a position and returns <<st, node, pos>>,  *)
(* st being "ok", "error" (nom::Err::Error: the caller may try another     *)
(* branch) or "failure" (nom::Err::Failure: the parse is given up).        *)
(***************************************************************************)
MaxTokens == 6

\* "leaf" is a leaf any attribute accepts (`size = 1B`); "ordleaf" is a leaf
\* of a pattern attribute with an ordering comparison (`name > foo`)
Tokens == {"leaf", "ordleaf", "and", "or", "not", "(", ")"}

AttributeToken == {"Name", "ModificationTime", "AccessTime", "Size", "Extension",
                   "Contains", "Depth", "Permissions", "Group", "User", "Type"}
TokenAttribute(t) == IF t = "ordleaf" THEN "Name" ELSE "Size"
TokenComparison(t) == IF t = "ordleaf" THEN "Gt" ELSE "Eq"

POk(node, pos) == <<"ok", node, pos>>
PError(pos) == <<"error", Nil, pos>>
PFailure(pos) == <<"failure", Nil, pos>>
At(ts, i, t) == i <= Len(ts) /\ ts[i] = t

RECURSIVE parse_or(_, _)
RECURSIVE parse_and(_, _)
RECURSIVE parse_not(_, _)
RECURSIVE parse_parens(_, _)
RECURSIVE parse_parens_or_attribute(_, _)
RECURSIVE parse_and_many0(_, _, _)
RECURSIVE parse_or_many0(_, _, _)

\* a filter_eq_neq that lets every comparison through
filter_eq_neq_Lenient(comparison) == "ok"

filter_eq_neq(comparison) ==
    IF comparison # "Eq" /\ comparison # "Neq" THEN "failure" ELSE "ok"

\* AttributeToken::parse for a leaf whose comparison and value are well
\* formed: which attributes go through filter_eq_neq
AttributeToken_parse(attribute, comparison, i) ==
    IF attribute \in {"Name", "Extension", "Contains"}
           /\ filter_eq_neq(comparison) = "failure"
    THEN PFailure(i)
    ELSE POk(Leaf(i, comparison), i + 1)

parse_attribute(ts, i) ==
    IF i <= Len(ts) /\ ts[i] \in {"leaf", "ordleaf"}
    THEN AttributeToken_parse(TokenAttribute(ts[i]), TokenComparison(ts[i]), i)
    ELSE PError(i)

\* delimited(ws(char('(')), parse_or, ws(char(')')))
parse_parens(ts, i) ==
    IF ~At(ts, i, "(") THEN PError(i)
    ELSE LET R == parse_or(ts, i + 1)
         IN  IF R[1] # "ok" THEN R
             ELSE IF At(ts, R[3], ")") THEN POk(R[2], R[3] + 1) ELSE PError(R[3])

\* alt((parse_parens, parse_attribute, parse_not))
parse_parens_or_attribute(ts, i) ==
    LET P == parse_parens(ts, i)
    IN  IF P[1] # "error" THEN P
        ELSE LET A == parse_attribute(ts, i)
             IN  IF A[1] # "error" THEN A ELSE parse_not(ts, i)

\* tag("not"), then alt((parse_attribute, parse_parens_or_attribute))
parse_not(ts, i) ==
    IF ~At(ts, i, "not") THEN PError(i)
    ELSE LET A == parse_attribute(ts, i + 1)
             R == IF A[1] # "error" THEN A ELSE parse_parens_or_attribute(ts, i + 1)
         IN  IF R[1] = "ok" THEN POk(Not(R[2]), R[3]) ELSE R

parse_operator(operator, expression_left, expression_right) ==
    CASE operator = "and" -> And(expression_left, expression_right)
      [] operator = "or" -> Or(expression_left, expression_right)

\* a parse_and whose operand after `and` is a whole disjunction
parse_and_many0_TakesOr(ts, i, acc) ==
    IF ~At(ts, i, "and") THEN POk(acc, i)
    ELSE LET R == parse_or(ts, i + 1)
         IN  CASE R[1] = "ok" -> parse_and_many0(ts, R[3], parse_operator("and", acc, R[2]))
               [] R[1] = "error" -> POk(acc, i)
               [] R[1] = "failure" -> R

\* many0(tuple((ws(tag("and")), parse_and))), folded by parse_expression
parse_and_many0(ts, i, acc) ==
    IF ~At(ts, i, "and") THEN POk(acc, i)
    ELSE LET R == parse_and(ts, i + 1)
         IN  CASE R[1] = "ok" -> parse_and_many0(ts, R[3], parse_operator("and", acc, R[2]))
               [] R[1] = "error" -> POk(acc, i)
               [] R[1] = "failure" -> R

parse_and(ts, i) ==
    LET L == parse_parens_or_attribute(ts, i)
    IN  IF L[1] # "ok" THEN L ELSE parse_and_many0(ts, L[3], L[2])

\* many0(tuple((ws(tag("or")), parse_and))), folded by parse_expression
parse_or_many0(ts, i, acc) ==
    IF ~At(ts, i, "or") THEN POk(acc, i)
    ELSE LET R == parse_and(ts, i + 1)
         IN  CASE R[1] = "ok" -> parse_or_many0(ts, R[3], parse_operator("or", acc, R[2]))
               [] R[1] = "error" -> POk(acc, i)
               [] R[1] = "failure" -> R

parse_or(ts, i) ==
    LET L == parse_and(ts, i)
    IN  IF L[1] # "ok" THEN L ELSE parse_or_many0(ts, L[3], L[2])

\* a parse_root that returns what parsed and drops the rest
parse_root_Partial(ts) ==
    LET R == parse_or(ts, 1)
    IN  IF R[1] # "ok" THEN Err(<<"NomError">>) ELSE Ok(R[2])

\* parse_root(input): Ok(expression), or an error; SomeTokensWereNotParsed
\* carries the remainder
parse_root(ts) ==
    LET R == parse_or(ts, 1)
    IN  IF R[1] # "ok" THEN Err(<<"NomError">>)
        ELSE IF R[3] <= Len(ts)
        THEN Err(<<"SomeTokensWereNotParsed", SubSeq(ts, R[3], Len(ts))>>)
        ELSE Ok(R[2])

Type(t) ==
    /\ pphase = "type"
    /\ Len(toks) < MaxTokens
    /\ toks' = Append(toks, t)
    /\ UNCHANGED <<pphase, parsed>>
    /\ UNCHANGED <<exprVars, tseitinVars, pipeVars, leafVars, mgrVars>>

\* Config::build: config.root, or the error of parse_root
Config_build(expression) == parse_root(expression)

\* main.rs 42, 63: the tree the producers evaluate,
\* Arc::new(config.root.clone())
root_node(config_root) == config_root

ParseRoot ==
    /\ pphase = "type"
    /\ parsed' = parse_root(toks)
    /\ pphase' = "parsed"
    /\ UNCHANGED toks
    /\ UNCHANGED <<exprVars, tseitinVars, pipeVars, leafVars, mgrVars>>

(***************************************************************************)
(* The pipeline (main.rs, run.rs).  main() builds the configuration,       *)
(* installs the SIGINT handler, runs the parallel walk to its end          *)
(* (spawn_senders returns when WalkParallel::run does), and only then      *)
(* creates the EntryReceiver and spawns the consumer thread, joins it and  *)
(* exits with what it returned.  The channel is kanal's unbounded channel: *)
(* a send succeeds while the receiver lives; a receive takes the oldest    *)
(* queued message, and on an empty queue reports the channel closed when   *)
(* every sender has been dropped and a timeout otherwise.                  *)
(***************************************************************************)
NumProducers == 2
MaxEntries == 3
MaxSigints == 2

Producers == 1..NumProducers
ProcessStatus == {"InProgress", "SendError", "Cancelled"}
EvalResults == {"True", "False", "TimedOut", "IoOther", "NotAFile", "WalkerError"}

EntryMessage_Init(p) == <<"Init", p, 0>>
Success(p, e) == <<"Success", p, e>>
Error(p, e) == <<"Error", p, e>>

\* a callback that reports every IoError, whatever its kind
message_AnyIoError(o, p, e) ==
    CASE o = "True" -> Success(p, e)
      [] o \in {"TimedOut", "IoOther"} -> Error(p, e)
      [] OTHER -> Nil

\* the message the callback sends for an entry, Nil when it returns Continue
\* without sending: o is the walker's error entry or the result of evaluate
message(o, p, e) ==
    CASE o = "True" -> Success(p, e)
      [] o = "TimedOut" -> Error(p, e)
      [] OTHER -> Nil

\* the sender handed to spawn_senders and its clones live until it returns
SendersAlive == mainPc = "walk"
\* the receiver lives in main() and then in the consumer thread
ReceiverAlive == cons \notin {"ret0", "ret1", "panicked"}

recv_timeout(queue, sendersAlive) ==
    IF queue # <<>> THEN Head(queue)
    ELSE IF sendersAlive THEN <<"Timeout">> ELSE <<"SendClosed">>

\* a receive_all that never looks at status
receive_all_status_Ignored(st) == "receive"

\* a receive_all that stops for a cancellation only
receive_all_status_CancelOnly(st) ==
    IF st = "Cancelled" THEN "break1" ELSE "receive"

\* the head of the loop of receive_all
receive_all_status(st) == IF st # "InProgress" THEN "break1" ELSE "receive"

PipeInit ==
    /\ mainPc = "config"
    /\ cfg = "none"
    /\ print0 = FALSE
    /\ exitCode = -1
    /\ status = "InProgress"
    /\ chan = <<>>
    /\ prod = [p \in Producers |->
                  [pc |-> "new", cur |-> 0, seen |-> "InProgress", late |-> 0]]
    /\ unvisited = MaxEntries
    /\ evald = {}
    /\ cons = "none"
    /\ recvd = <<>>
    /\ stdout = <<>>
    /\ pending = FALSE
    /\ writeFailed = FALSE
    /\ sig = "idle"
    /\ handlerRuns = 0
    /\ consLate = 0

Exit(code) ==
    /\ mainPc' = "exited"
    /\ exitCode' = code

\* main.rs 25-61: Config::build, --print-expression-tree, set_int_handler
MainConfig(o, p0) ==
    /\ mainPc = "config"
    /\ cfg' = o
    /\ CASE o = "err" -> Exit(1) /\ UNCHANGED print0
         [] o = "tree" -> Exit(0) /\ UNCHANGED print0
         [] o = "run" -> mainPc' = "walk" /\ print0' = p0 /\ UNCHANGED exitCode
    /\ UNCHANGED <<status, chan, prod, unvisited, evald, cons, recvd, stdout,
                   pending, writeFailed, sig, handlerRuns>>
    /\ UNCHANGED <<exprVars, tseitinVars, parseVars, leafVars, mgrVars, consLate>>

\* a callback that goes on whatever the status is
callback_quits_Never(st) == FALSE

\* run.rs 42-44: the callback returns Quit unless status is InProgress
callback_quits(st) == st # "InProgress"

\* 1 for a message sent while status is not InProgress
Late == IF status # "InProgress" THEN 1 ELSE 0

\* run.rs 35-39: the walker builds a producer's callback, which sends Init
ProdInit(p) ==
    /\ mainPc = "walk"
    /\ prod[p].pc = "new"
    /\ chan' = Append(chan, EntryMessage_Init(p))
    /\ prod' = [prod EXCEPT ![p].pc = "idle", ![p].late = @ + Late]
    /\ UNCHANGED <<mainPc, cfg, print0, exitCode, status, unvisited, evald, cons,
                   recvd, stdout, pending, writeFailed, sig, handlerRuns>>
    /\ UNCHANGED <<exprVars, tseitinVars, parseVars, leafVars, mgrVars, consLate>>

\* run.rs 42-44: the callback is called with an entry and reads status
ProdCheck(p) ==
    /\ mainPc = "walk"
    /\ prod[p].pc = "idle"
    /\ unvisited > 0
    /\ unvisited' = unvisited - 1
    /\ prod' = IF callback_quits(status)
               THEN [prod EXCEPT ![p].pc = "done", ![p].seen = status]
               ELSE [prod EXCEPT ![p].pc = "eval", ![p].seen = status,
                                 ![p].cur = MaxEntries - unvisited + 1]
    /\ UNCHANGED <<mainPc, cfg, print0, exitCode, status, chan, evald, cons,
                   recvd, stdout, pending, writeFailed, sig, handlerRuns>>
    /\ UNCHANGED <<exprVars, tseitinVars, parseVars, leafVars, mgrVars, consLate>>

\* run.rs 46-73: the rest of the callback
ProdEval(p, o) ==
    /\ mainPc = "walk"
    /\ prod[p].pc = "eval"
    /\ LET e == prod[p].cur
           m == message(o, p, e)
       IN  IF m = Nil
           THEN /\ evald' = evald \cup {<<e, o, "Continue">>}
                /\ prod' = [prod EXCEPT ![p].pc = "idle"]
                /\ UNCHANGED <<chan, status>>
           ELSE IF ReceiverAlive
           THEN /\ chan' = Append(chan, m)
                /\ evald' = evald \cup {<<e, o, "Continue">>}
                /\ prod' = [prod EXCEPT ![p].pc = "idle", ![p].late = @ + Late]
                /\ UNCHANGED status
           ELSE /\ status' = "SendError"
                /\ evald' = evald \cup {<<e, o, "Quit">>}
                /\ prod' = [prod EXCEPT ![p].pc = "done"]
                /\ UNCHANGED chan
    /\ UNCHANGED <<mainPc, cfg, print0, exitCode, unvisited, cons, recvd, stdout,
                   pending, writeFailed, sig, handlerRuns>>
    /\ UNCHANGED <<exprVars, tseitinVars, parseVars, leafVars, mgrVars, consLate>>

\* the walker has no further entry for this producer
ProdFinish(p) ==
    /\ mainPc = "walk"
    /\ prod[p].pc = "idle"
    /\ prod' = [prod EXCEPT ![p].pc = "done"]
    /\ UNCHANGED <<mainPc, cfg, print0, exitCode, status, chan, unvisited, evald,
                   cons, recvd, stdout, pending, writeFailed, sig, handlerRuns>>
    /\ UNCHANGED <<exprVars, tseitinVars, parseVars, leafVars, mgrVars, consLate>>

\* main.rs 63-74: spawn_senders returns, the consumer thread is spawned
MainSpawn ==
    /\ mainPc = "walk"
    /\ \A p \in Producers : prod[p].pc = "done"
    /\ mainPc' = "join"
    /\ cons' = "check"
    /\ UNCHANGED <<cfg, print0, exitCode, status, chan, prod, unvisited, evald,
                   recvd, stdout, pending, writeFailed, sig, handlerRuns>>
    /\ UNCHANGED <<exprVars, tseitinVars, parseVars, leafVars, mgrVars, consLate>>

\* run.rs 172-183: the closure of receive_all ends and drops the receiver;
\* the drop of its LineWriter writes what the buffer holds and ignores a
\* failure of the write, after which the bytes are still not written; ok
\* is whether the write succeeds
drop_LineWriter(held, ok) == held /\ ~ok

\* run.rs 174-176: the consumer reads status
ConsCheck ==
    /\ mainPc = "join"
    /\ cons = "check"
    /\ cons' = IF receive_all_status(status) = "break1" THEN "ret1" ELSE "recv"
    /\ IF receive_all_status(status) = "break1"
       THEN \E ok \in BOOLEAN : pending' = drop_LineWriter(pending, ok)
       ELSE UNCHANGED pending
    /\ UNCHANGED <<mainPc, cfg, print0, exitCode, status, chan, prod, unvisited,
                   evald, recvd, stdout, writeFailed, sig, handlerRuns>>
    /\ UNCHANGED <<exprVars, tseitinVars, parseVars, leafVars, mgrVars, consLate>>

\* a receive that takes an Error message for a failure of its own
receive_Error_SetsStatus(st) == "SendError"

\* run.rs 154-158: the status after receive handled an Error message, which
\* it writes to stderr
receive_Error(st) == st

\* run.rs 138-169, 179-181: receive(); ok is whether the write or flush of
\* stdout this call makes succeeds.  With the '\n' separator a written line
\* goes through to the descriptor; with '\0' it stays in the buffer.
ConsRecv(ok) ==
    /\ mainPc = "join"
    /\ cons = "recv"
    /\ LET r == recv_timeout(chan, SendersAlive)
       IN  CASE r[1] = "Success" ->
                  /\ chan' = Tail(chan)
                  /\ recvd' = Append(recvd, r)
                  /\ cons' = "check"
                  /\ IF ok
                     THEN /\ stdout' = Append(stdout, r[3])
                          /\ pending' = print0
                          /\ UNCHANGED <<status, writeFailed>>
                     ELSE /\ status' = "SendError"
                          /\ writeFailed' = TRUE
                          /\ UNCHANGED <<stdout, pending>>
             [] r[1] = "Init" ->
                  /\ chan' = Tail(chan)
                  /\ recvd' = Append(recvd, r)
                  /\ IF pending /\ ~ok
                     THEN cons' = "panicked" /\ UNCHANGED pending
                     ELSE cons' = "check" /\ pending' = FALSE
                  /\ UNCHANGED <<status, stdout, writeFailed>>
             [] r[1] = "Error" ->
                  /\ chan' = Tail(chan)
                  /\ recvd' = Append(recvd, r)
                  /\ cons' = "check"
                  /\ status' = receive_Error(status)
                  /\ UNCHANGED <<stdout, pending, writeFailed>>
             [] r[1] = "Timeout" ->
                  /\ pending' = (pending /\ ~ok)
                  /\ cons' = "check"
                  /\ UNCHANGED <<chan, recvd, status, stdout, writeFailed>>
             [] r[1] = "SendClosed" ->
                  /\ cons' = "ret0"
                  /\ pending' = drop_LineWriter(pending, ok)
                  /\ UNCHANGED <<chan, recvd, status, stdout, writeFailed>>
    /\ consLate' = IF recv_timeout(chan, SendersAlive)[1]
                          \in {"Success", "Init", "Error"}
                       /\ status # "InProgress"
                    THEN consLate + 1 ELSE consLate
    /\ UNCHANGED <<mainPc, cfg, print0, exitCode, prod, unvisited, evald, sig,
                   handlerRuns>>
    /\ UNCHANGED <<exprVars, tseitinVars, parseVars, leafVars, mgrVars>>

\* main.rs 76-77: handle.join().unwrap() and exit; a consumer that panicked
\* makes the unwrap panic, and the process ends with Rust's code for that
PanicCode == 101

MainExit ==
    /\ mainPc = "join"
    /\ cons \in {"ret0", "ret1", "panicked"}
    /\ Exit(CASE cons = "ret0" -> 0 [] cons = "ret1" -> 1 [] OTHER -> PanicCode)
    /\ UNCHANGED <<cfg, print0, status, chan, prod, unvisited, evald, cons, recvd,
                   stdout, pending, writeFailed, sig, handlerRuns>>
    /\ UNCHANGED <<exprVars, tseitinVars, parseVars, leafVars, mgrVars, consLate>>

\* run.rs 190-192: a SIGINT arrives, the handler reads status
SigCheck ==
    /\ mainPc \in {"walk", "join"}
    /\ sig = "idle"
    /\ handlerRuns < MaxSigints
    /\ handlerRuns' = handlerRuns + 1
    /\ IF status = "Cancelled"
       THEN Exit(130) /\ UNCHANGED sig
       ELSE sig' = "set" /\ UNCHANGED <<mainPc, exitCode>>
    /\ UNCHANGED <<cfg, print0, status, chan, prod, unvisited, evald, cons, recvd,
                   stdout, pending, writeFailed>>
    /\ UNCHANGED <<exprVars, tseitinVars, parseVars, leafVars, mgrVars, consLate>>

\* run.rs 194: the handler locks status again and writes it
SigSet ==
    /\ mainPc \in {"walk", "join"}
    /\ sig = "set"
    /\ status' = "Cancelled"
    /\ sig' = "idle"
    /\ UNCHANGED <<mainPc, cfg, print0, exitCode, chan, prod, unvisited, evald,
                   cons, recvd, stdout, pending, writeFailed, handlerRuns>>
    /\ UNCHANGED <<exprVars, tseitinVars, parseVars, leafVars, mgrVars, consLate>>

(***************************************************************************)
(* Filter literals (parse/attribute_token.rs, parse/primitives.rs,         *)
(* parse/size_unit.rs, parse/time_unit.rs) and their evaluation on one     *)
(* entry (evaluate/filter_impl.rs).  A literal is parsed and, where the    *)
(* property is about evaluation, evaluated at once; lin keeps what was     *)
(* written and lout what came out.                                         *)
(***************************************************************************)
MaxDelta == 1
MaxId == 1
MaxNameLen == 5
MaxPatternLen == 3
MaxValue == 2

NomError == <<"NomError">>

\* Option: Some(x), or Nil for None
Some(x) == <<"Some", x>>

\* Ord::cmp of two integers
Cmp(l, r) == IF l < r THEN "Less" ELSE IF l = r THEN "Equal" ELSE "Greater"

\* ---- size
SizeUnit == {"Byte", "Kilobyte", "Megabyte", "Terabyte"}

SizeUnit_to_bytes(unit, value) ==
    CASE unit = "Byte" -> value
      [] unit = "Kilobyte" -> value * 1000
      [] unit = "Megabyte" -> value * 1000 * 1000
      [] unit = "Terabyte" -> value * 1000 * 1000 * 1000

\* SizeUnit::get_aliases: alias -> canonical name
SizeUnit_get_aliases ==
    [a \in {"B", "byte", "bytes", "Kb", "kilobyte", "Mb", "Tb"} |->
        CASE a \in {"B", "byte", "bytes"} -> "Byte"
          [] a \in {"Kb", "kilobyte"} -> "Kilobyte"
          [] a = "Mb" -> "Megabyte"
          [] a = "Tb" -> "Terabyte"]

\* the unit as written, the whole of the input that follows the number:
\* an alias is taken when it is the whole text
parse_size_unit(text) ==
    IF text \in DOMAIN SizeUnit_get_aliases
    THEN Some(SizeUnit_get_aliases[text])
    ELSE Nil

Filter_Size(value, comparison) == <<"Size", value, comparison>>

\* AttributeToken::parse, the Size arm
AttributeToken_parse_Size(comparison, number, text) ==
    LET unit == parse_size_unit(text) IN
    IF unit = Nil
    THEN NomError
    ELSE Filter_Size(SizeUnit_to_bytes(unit[2], number), comparison)

\* the numbers a size is written with; their products with 1000^3 stay
\* within the integers of the checker
SizeNumbers == 0..2

\* the unit spellings a user can write: the aliases and, for the units of
\* the documentation, Gb and K
UnitTexts == DOMAIN SizeUnit_get_aliases \cup {"Gb", "K"}

\* ---- access and modification time, in seconds
TimeUnit == {"Second", "Minute", "Hour", "Day"}

TimeUnit_to_duration(unit, value) ==
    CASE unit = "Second" -> value
      [] unit = "Minute" -> value * 60
      [] unit = "Hour" -> value * 3600
      [] unit = "Day" -> value * 86400

\* a delta is <<sign, number, unit>>
parse_signed_delta(sign, number, unit) ==
    LET duration == TimeUnit_to_duration(unit, number) IN
    IF sign = "-" THEN -duration ELSE duration

\* `now` and an optional signed delta (Nil when none is written)
parse_duration(delta) ==
    IF delta = Nil
    THEN TimeUnit_to_duration("Second", 0)
    ELSE parse_signed_delta(delta[1], delta[2], delta[3])

\* AttributeToken::parse, the AccessTime and ModificationTime arms
AttributeToken_parse_time(attribute, comparison, delta) ==
    <<attribute, parse_duration(delta), comparison>>

\* the instant the process started, seconds since the epoch
NOW == 1000000

\* DurationOffsetExt::add_to
add_to(duration, absolute_time) ==
    IF duration < 0
    THEN absolute_time - (-duration)
    ELSE absolute_time - duration

\* ---- user and group
\* AttributeToken::parse, the Group and User arms, for a numeric id
AttributeToken_parse_owner(attribute, comparison, value) ==
    CASE attribute = "Group" -> <<"User", value, comparison>>
      [] attribute = "User" -> <<"User", value, comparison>>

\* ---- extension; a name or a pattern is a sequence of characters
Chars == {"a", "b", "."}

\* the last index of a dot in file, 0 when there is none
LastDot(file) ==
    LET dots == {i \in 1..Len(file) : file[i] = "."} IN
    IF dots = {} THEN 0 ELSE CHOOSE i \in dots : \A j \in dots : j <= i

\* Path::file_name of a path of one component
Path_file_name(path) ==
    IF path \in {<<>>, <<".">>, <<".", ".">>} THEN Nil ELSE path

\* Path::extension: the part after the last dot of the file name, none when
\* the name has no dot or its only dot comes first
Path_extension(path) ==
    LET file == Path_file_name(path) IN
    IF file = Nil THEN Nil
    ELSE LET i == LastDot(file) IN
         IF i <= 1 THEN Nil ELSE Some(SubSeq(file, i + 1, Len(file)))

\* MatchPattern::is_match for a glob without metacharacters
MatchPattern_is_match(pattern, text) == pattern = text

\* AttributeToken::parse, the Extension arm (the comparison passed
\* filter_eq_neq)
AttributeToken_parse_Extension(comparison, pattern) ==
    <<"Extension", pattern, comparison>>

\* ---- evaluation of a literal <<variant, value, comparison>> on an entry
\* [atime, mtime, uid, gid, path]; an attribute is Some(x), or Nil when
\* reading it fails
LeafFilter_evaluate(f, e) ==
    LET value == f[2]
        comparison == f[3]
    IN
    CASE f[1] = "AccessTime" ->
            IF e.atime = Nil THEN Err("IoError")
            ELSE Ok(Comparison_evaluate(comparison,
                                        Cmp(e.atime[2], add_to(value, NOW))))
      [] f[1] = "ModificationTime" ->
            IF e.mtime = Nil THEN Err("IoError")
            ELSE Ok(Comparison_evaluate(comparison,
                                        Cmp(e.mtime[2], add_to(value, NOW))))
      [] f[1] = "Extension" ->
            LET extension == Path_extension(e.path) IN
            IF extension # Nil
            THEN Ok(Comparison_evaluate(comparison,
                     IF MatchPattern_is_match(value, extension[2])
                     THEN "Equal" ELSE "Less"))
            ELSE Ok(Comparison_evaluate(comparison, "Less"))
      [] f[1] = "User" ->
            IF e.uid = Nil THEN Err("IoError")
            ELSE Ok(Comparison_evaluate(comparison, Cmp(e.uid[2], value)))
      [] f[1] = "Group" ->
            IF e.gid = Nil THEN Err("IoError")
            ELSE Ok(Comparison_evaluate(comparison, Cmp(e.gid[2], value)))
      [] f[1] = "Type" ->
            IF e.entry_type # "File" THEN Ok(FALSE)
            ELSE IF ~e.readable THEN Err("IoError")
            ELSE IF e.inferred = Nil THEN Ok(FALSE)
            ELSE LET result == e.inferred[2] = value
                 IN  Ok(IF comparison # "Eq" THEN ~result ELSE result)
      [] f[1] = "Contains" ->
            IF e.entry_type # "File" THEN Ok(FALSE)
            ELSE IF e.pagemap THEN Ok(FALSE)
            ELSE IF ~e.readable THEN Err("IoError")
            ELSE IF \E i \in 1..Len(e.lines) : MatchPattern_is_match(value, e.lines[i])
                 THEN Ok(Comparison_evaluate(comparison, "Equal"))
                 ELSE Ok(Comparison_evaluate(comparison, "Less"))

\* Not for Filter: the comparison is negated
Filter_not(f) == <<f[1], f[2], Comparison_negate(f[3])>>

\* an entry with nothing of interest: an empty file that can be read and
\* whose type infer does not know
DirEntry ==
    [atime |-> Some(NOW), mtime |-> Some(NOW), uid |-> Some(0),
     gid |-> Some(0), path |-> <<"a">>,
     entry_type |-> "File", readable |-> TRUE, inferred |-> Nil,
     lines |-> <<>>, pagemap |-> FALSE]

\* some of EntryType, some of FileType, and the lines of a file
EntryType == {"File", "Dir", "Symlink"}
FileType == {"Text", "Video"}
Lines == {<<>>, << <<"a">> >>, << <<"b">>, <<"a">> >>}

\* ---- the inputs
Deltas ==
    {Nil} \cup {<<sg, n, u>> : sg \in {"+", "-"}, n \in 0..MaxDelta,
                               u \in TimeUnit}

\* timestamps around NOW, and one that cannot be read
FileTimes ==
    {Some(NOW + parse_duration(d)) : d \in Deltas} \cup {Nil}

RECURSIVE Strings(_)
Strings(n) ==
    IF n = 0 THEN {<<>>}
    ELSE LET S == Strings(n - 1) IN
         S \cup {Append(t, c) : t \in {u \in S : Len(u) = n - 1}, c \in Chars}

LeafInit ==
    /\ lop = "none"
    /\ lin = <<>>
    /\ lout = <<>>

ParseSize ==
    /\ lop = "none"
    /\ lop' = "size"
    /\ \E comparison \in Comparison, number \in SizeNumbers,
          text \in UnitTexts :
          /\ lin' = <<comparison, number, text>>
          /\ lout' = AttributeToken_parse_Size(comparison, number, text)
    /\ UNCHANGED <<exprVars, tseitinVars, parseVars, pipeVars, mgrVars>>

EvalTime ==
    /\ lop = "none"
    /\ lop' = "time"
    /\ \E attribute \in {"AccessTime", "ModificationTime"},
          comparison \in Comparison, delta \in Deltas, time \in FileTimes :
          LET f == AttributeToken_parse_time(attribute, comparison, delta)
              e == [DirEntry EXCEPT !.atime = time, !.mtime = time]
          IN /\ lin' = <<attribute, comparison, delta, time>>
             /\ lout' = <<f, LeafFilter_evaluate(f, e)>>
    /\ UNCHANGED <<exprVars, tseitinVars, parseVars, pipeVars, mgrVars>>

EvalOwner ==
    /\ lop = "none"
    /\ lop' = "owner"
    /\ \E attribute \in {"User", "Group"}, comparison \in Comparison,
          value \in 0..MaxId, uid \in 0..MaxId, gid \in 0..MaxId :
          LET f == AttributeToken_parse_owner(attribute, comparison, value)
              e == [DirEntry EXCEPT !.uid = Some(uid), !.gid = Some(gid)]
          IN /\ lin' = <<attribute, comparison, value, uid, gid>>
             /\ lout' = <<f, LeafFilter_evaluate(f, e)>>
    /\ UNCHANGED <<exprVars, tseitinVars, parseVars, pipeVars, mgrVars>>

EvalExtension ==
    /\ lop = "none"
    /\ lop' = "ext"
    /\ \E comparison \in {"Eq", "Neq"}, pattern \in Strings(MaxPatternLen),
          path \in Strings(MaxNameLen) :
          LET f == AttributeToken_parse_Extension(comparison, pattern)
              e == [DirEntry EXCEPT !.path = path]
          IN /\ lin' = <<"Extension", comparison, pattern, path>>
             /\ lout' = <<f, LeafFilter_evaluate(f, e)>>
    /\ UNCHANGED <<exprVars, tseitinVars, parseVars, pipeVars, mgrVars>>

\* a literal and its negation, each evaluated on the same entry
EvalNot ==
    /\ lop = "none"
    /\ lop' = "not"
    /\ \E entry_type \in EntryType, readable \in BOOLEAN, pagemap \in BOOLEAN :
          LET e == [DirEntry EXCEPT !.entry_type = entry_type,
                                    !.readable = readable,
                                    !.pagemap = pagemap]
          IN  \/ \E comparison \in Comparison, value \in FileType,
                     inferred \in {Some(t) : t \in FileType} \cup {Nil} :
                     LET f == <<"Type", value, comparison>>
                         d == [e EXCEPT !.inferred = inferred]
                     IN  /\ lin' = <<f, d>>
                         /\ lout' = <<LeafFilter_evaluate(f, d),
                                      LeafFilter_evaluate(Filter_not(f), d)>>
              \/ \E comparison \in {"Eq", "Neq"}, value \in {<<"a">>, <<"b">>},
                     lines \in Lines :
                     LET f == <<"Contains", value, comparison>>
                         d == [e EXCEPT !.lines = lines]
                     IN  /\ lin' = <<f, d>>
                         /\ lout' = <<LeafFilter_evaluate(f, d),
                                      LeafFilter_evaluate(Filter_not(f), d)>>
              \/ \E comparison \in Comparison, value \in 0..MaxId, uid \in 0..MaxId :
                     LET f == <<"User", value, comparison>>
                         d == [e EXCEPT !.uid = Some(uid)]
                     IN  /\ lin' = <<f, d>>
                         /\ lout' = <<LeafFilter_evaluate(f, d),
                                      LeafFilter_evaluate(Filter_not(f), d)>>
    /\ UNCHANGED <<exprVars, tseitinVars, parseVars, pipeVars, mgrVars>>

\* a comparison, negated once and twice, each evaluated on l and r
Negate ==
    /\ lop = "none"
    /\ lop' = "negate"
    /\ \E c \in Comparison, l \in 0..MaxValue, r \in 0..MaxValue :
          LET n == Comparison_negate(c) IN
          /\ lin' = <<c, l, r>>
          /\ lout' = <<n, Comparison_negate(n),
                       Comparison_evaluate(c, Cmp(l, r)),
                       Comparison_evaluate(n, Cmp(l, r))>>
    /\ UNCHANGED <<exprVars, tseitinVars, parseVars, pipeVars, mgrVars>>

(***************************************************************************)
(* Specifications.  Each one runs one part of the program; the variables   *)
(* of the other parts keep their initial values.                           *)
(***************************************************************************)
ParseInit ==
    /\ toks = <<>>
    /\ pphase = "type"
    /\ parsed = Nil

ExprNext ==
    \/ \E c \in LeafCmps : PushLeaf(c, MaxNodes)
    \/ MkAnd
    \/ MkOr
    \/ MkNot(MaxNodes)
    \/ ToNnf
    \/ ToCnf

\* the state after construction: nothing built, typed or started
InitAll ==
    /\ ExprInit /\ entry = <<>>
    /\ TseitinInit /\ ParseInit /\ PipeInit /\ LeafInit /\ MgrInit

SpecExpr ==
    /\ InitAll
    /\ [][ExprNext]_vars

\* to_cnf on large trees: the expressions that repeat a small expression
CnfNext ==
    \/ \E c \in EvalCmps : PushLeaf(c, MaxNodes)
    \/ MkAnd
    \/ MkOr
    \/ Twice
    \/ ToNnf
    \/ ToCnf

SpecCnf ==
    /\ InitAll
    /\ [][CnfNext]_vars

\* an expression is built, normalized and given to an ExecutionManager
ManagerNext ==
    \/ \E c \in EvalCmps : PushLeaf(c, MaxNodes)
    \/ MkAnd
    \/ MkOr
    \/ MkNot(MaxNodes)
    \/ ToNnf
    \/ New
    \/ TseitinTransform

SpecManager ==
    /\ InitAll
    /\ [][ManagerNext]_vars

\* Nnf values are built with the macros and joined with an operator
NnfNext ==
    \/ \E v \in 1..NumVars, p \in BOOLEAN : PushVar(v, p)
    \/ \E k \in 0..MaxArity : WrapAnd(k)
    \/ \E k \in 0..MaxArity : WrapOr(k)
    \/ BitOr
    \/ BitAnd

SpecNnf ==
    /\ InitAll
    /\ [][NnfNext]_vars

EvalNext ==
    \/ \E c \in EvalCmps : PushLeaf(c, EvalMaxNodes)
    \/ MkAnd
    \/ MkOr
    \/ MkNot(EvalMaxNodes)
    \/ Evaluate

\* the evaluator runs against every entry
EvalInit ==
    /\ ExprInit /\ entry \in [1..EvalLeaves -> EvalOutcomes]
    /\ TseitinInit /\ ParseInit /\ PipeInit /\ LeafInit /\ MgrInit

SpecEval ==
    /\ EvalInit
    /\ [][EvalNext]_vars

TseitinNext ==
    \/ \E v \in 1..NumVars, p \in BOOLEAN : PushVar(v, p)
    \/ \E k \in 0..MaxArity : WrapAnd(k)
    \/ \E k \in 0..MaxArity : WrapOr(k)
    \/ Transform
    \/ TransformAgain

SpecTseitin ==
    /\ InitAll
    /\ [][TseitinNext]_vars

ParseNext ==
    \/ \E t \in Tokens : Type(t)
    \/ ParseRoot

SpecParse ==
    /\ InitAll
    /\ [][ParseNext]_vars

LeafNext ==
    \/ ParseSize
    \/ EvalTime
    \/ EvalOwner
    \/ EvalExtension
    \/ EvalNot
    \/ Negate

SpecLeaf ==
    /\ InitAll
    /\ [][LeafNext]_vars

PipeNext ==
    \/ \E o \in {"err", "tree", "run"}, p0 \in BOOLEAN : MainConfig(o, p0)
    \/ \E p \in Producers : ProdInit(p)
    \/ \E p \in Producers : ProdCheck(p)
    \/ \E p \in Producers, o \in EvalResults : ProdEval(p, o)
    \/ \E p \in Producers : ProdFinish(p)
    \/ MainSpawn
    \/ ConsCheck
    \/ \E ok \in BOOLEAN : ConsRecv(ok)
    \/ MainExit
    \/ SigCheck
    \/ SigSet

SpecPipe ==
    /\ InitAll
    /\ [][PipeNext]_vars

\* The threads are scheduled: a producer that can step does, its walk being
\* finite and its evaluations returning; main goes on when spawn_senders
\* returns; the consumer thread runs.  Signals and failures of writes come
\* from outside and are under no such condition.
PipeFairness ==
    /\ \A p \in Producers :
          WF_vars(\/ ProdInit(p) \/ ProdCheck(p) \/ ProdFinish(p)
                  \/ \E o \in EvalResults : ProdEval(p, o))
    /\ WF_vars(MainSpawn)
    /\ WF_vars(ConsCheck \/ \E ok \in BOOLEAN : ConsRecv(ok))

SpecPipeFair ==
    /\ InitAll
    /\ [][PipeNext]_vars
    /\ PipeFairness

(***************************************************************************)
(* Properties of the expression algebra.                                   *)
(***************************************************************************)
\* every assignment of comparison outcomes to the leaves of expr
Assignments == [1..nleaf -> Ordering]

RECURSIVE SubTrees(_)
SubTrees(n) ==
    CASE Kind(n) = "Leaf" -> {n}
      [] Kind(n) = "Not" -> {n} \cup SubTrees(n[2])
      [] OTHER -> {n} \cup SubTrees(n[2]) \cup SubTrees(n[3])

\* C1: for every expression E and every assignment of truth values to its
\* leaves (a negated leaf taking the complemented value), to_nnf(E) evaluates
\* to the same boolean as E.
C1_NnfEquivalent ==
    phase \in {"nnf", "cnf"} =>
        \A e \in Assignments : evaluate(nnf, e)[1] = evaluate(expr, e)[1]

\* a negation was pushed through a conjunction that holds a negation itself
C1_Witness ==
    /\ phase = "nnf"
    /\ Kind(expr) = "Not"
    /\ Kind(expr[2]) = "And"
    /\ \E s \in SubTrees(expr[2]) : Kind(s) = "Not"
    /\ Kind(nnf) = "Or"

\* C17: for every expression E, to_nnf(E) contains no Not node; a negation
\* survives only as the negated comparison of a leaf.
C17_NnfHasNoNot ==
    phase \in {"nnf", "cnf"} =>
        \A s \in SubTrees(nnf) : Kind(s) \in {"Leaf", "And", "Or"}

\* a negated operator with a double negation below it was normalized
C17_Witness ==
    /\ phase = "nnf"
    /\ \E s \in SubTrees(expr) :
          /\ Kind(s) = "Not" /\ Kind(s[2]) \in {"And", "Or"}
          /\ \E t \in SubTrees(s[2]) : Kind(t) = "Not" /\ Kind(t[2]) = "Not"
    /\ \E s \in SubTrees(nnf) : Kind(s) = "Leaf" /\ s[3] = "Neq"

\* C2: for every expression E and every assignment of truth values to its
\* leaves, to_cnf(to_nnf(E)) evaluates to the same boolean as E.
C2_CnfEquivalent ==
    phase = "cnf" =>
        \A e \in Assignments : evaluate(cnf, e)[1] = evaluate(expr, e)[1]

\* a disjunction over a conjunction, got from a negation, was distributed
C2_Witness ==
    /\ phase = "cnf"
    /\ Kind(expr) = "Not"
    /\ Kind(nnf) = "Or"
    /\ Kind(nnf[2]) = "And"
    /\ Kind(cnf) = "And"
    /\ cnf # nnf

\* An Or node with an And node among its descendants
OrOverAnd(n) ==
    \E s \in SubTrees(n) :
        Kind(s) = "Or" /\ \E t \in SubTrees(s) : Kind(t) = "And"

\* C24: to_cnf returns on every Not-free tree, and it returns only after a
\* pass in which no distribution fired, however many fired in the passes
\* before; the tree it returns has no Or node above an And node.
C24_StopsAtFixedPoint ==
    phase = "cnf" =>
        /\ cnf # Overflow
        /\ to_cnf_step(cnf, 0)[2] = 0
        /\ ~OrOverAnd(cnf)

\* C9: And(l, r) evaluates l first and r only when l returned Ok(true);
\* Or(l, r) evaluates r only when l returned Ok(false); an error of l is the
\* result, r not being evaluated; when l alone decides, nothing of r is
\* evaluated and no error of r is observed.
C9_ShortCircuit ==
    phase = "eval" =>
        /\ evres = evaluate(expr, entry)
        /\ \A s \in SubTrees(expr) :
              Kind(s) \in {"And", "Or"} =>
                  LET W == IF s = expr THEN evres ELSE evaluate(s, entry)
                      L == evaluate(s[2], entry)
                      R == evaluate(s[3], entry)
                      goesOn == IF Kind(s) = "And" THEN Ok(TRUE) ELSE Ok(FALSE)
                  IN  /\ SubSeq(W[2], 1, Len(L[2])) = L[2]
                      /\ L[1] = goesOn => W = <<R[1], L[2] \o R[2]>>
                      /\ L[1] # goesOn => W = L

\* the unvisited operand decides a conjunction whose right operand would fail
C9_Witness ==
    /\ phase = "eval"
    /\ Kind(expr) = "And"
    /\ evaluate(expr[2], entry)[1] = Ok(FALSE)
    /\ IsErr(evaluate(expr[3], entry)[1])
    /\ evres[1] = Ok(FALSE)

(***************************************************************************)
(* Properties of the Tseitin transformation.                               *)
(***************************************************************************)
\* the truth of an Nnf under an assignment of its variables
RECURSIVE NnfEval(_, _)
NnfEval(n, a) ==
    CASE Kind(n) = "Var" -> a[n[2]] = n[3]
      [] Kind(n) = "And" -> \A c \in n[2] : NnfEval(c, a)
      [] Kind(n) = "Or" -> \E c \in n[2] : NnfEval(c, a)

\* the extension of s, over the variables of the input, by t, over the
\* auxiliary variables
Extend(s, t) == [v \in (DOMAIN s) \cup (DOMAIN t) |-> IF v \in DOMAIN s THEN s[v] ELSE t[v]]

AuxNames == AuxBase..(transform(tin).counter - 1)

Equisatisfiable ==
    /\ Kind(tout) = "And"
    /\ \A s \in [1..NumVars -> BOOLEAN] :
          NnfEval(tin, s) <=> \E t \in [AuxNames -> BOOLEAN] : NnfEval(tout, Extend(s, t))

\* C3: for every Nnf input E: E is true under an assignment of its variables
\* iff some extension of it to the auxiliary variables makes every clause of
\* transform(E) true.
C3_Equisatisfiable == tphase = "done" => Equisatisfiable

\* C4: for every Nnf input, with empty and single-child sets at any depth,
\* transform completes without reaching the unreachable branch and returns
\* a CNF.
C4_TransformIsCnf == tphase = "done" => ~transform(tin).ub /\ is_cnf(tout)

\* wherever the unreachable branch is not reached, the output is an
\* equisatisfiable CNF
SoundUnlessUb ==
    tphase = "done" /\ ~transform(tin).ub => Equisatisfiable /\ is_cnf(tout)

\* a nested compound was replaced by an auxiliary variable
SoundUnlessUb_Witness ==
    /\ tphase = "done"
    /\ ~transform(tin).ub
    /\ AuxNames # {}

\* C18: transform(transform(E)) = transform(E) for every Nnf input E, and
\* an input that is already a CNF is returned unchanged with no call of the
\* aux factory.
C18_Idempotent ==
    /\ tphase \in {"done", "again"} =>
          /\ tout # Crash
          /\ is_cnf(tin) => (tout = tin /\ taux = 0)
    /\ tphase = "again" => tagain = tout

\* wherever the unreachable branch is not reached, a second transform
\* returns what the first returned, and a CNF comes back unchanged
IdempotentUnlessUb ==
    /\ (tphase \in {"done", "again"} /\ is_cnf(tin)) =>
          (~transform(tin).ub /\ tout = tin /\ taux = 0)
    /\ (tphase = "again" /\ ~transform(tin).ub) => tagain = tout

\* a sentence that needed auxiliary variables was transformed twice
IdempotentUnlessUb_Witness ==
    /\ tphase = "again"
    /\ ~transform(tin).ub
    /\ taux > 0
    /\ tagain = tout
    /\ Cardinality(tout[2]) > 1

\* a CNF of two clauses came back unchanged
CnfUnchanged_Witness ==
    /\ tphase = "done"
    /\ is_cnf(tin)
    /\ Cardinality(tin[2]) = 2
    /\ tout = tin

(***************************************************************************)
(* Properties of the Nnf operators and of ExecutionManager.                *)
(***************************************************************************)
\* the names that occur in an Nnf
RECURSIVE NamesOf(_)
NamesOf(n) ==
    IF Kind(n) = "Var" THEN {n[2]} ELSE UNION {NamesOf(c) : c \in n[2]}

\* the leaves of an expression, left to right
RECURSIVE LeavesOf(_)
LeavesOf(n) ==
    CASE Kind(n) = "Leaf" -> <<n>>
      [] Kind(n) = "Not" -> LeavesOf(n[2])
      [] OTHER -> LeavesOf(n[2]) \o LeavesOf(n[3])

RealVars == {v \in NamesOf(mroot) : FilterVar_is_var(v)}
AuxVars == {v \in NamesOf(mroot) : FilterVar_is_aux(v)}

\* C25: every Var{id, weight} compares less than every Aux(id), auxiliaries
\* are ordered by id, and so in the sorted children of every clause the
\* literals of real filters come before the literals of auxiliaries.
C25_VarBeforeAux ==
    mphase \in {"transformed", "again"} =>
        /\ \A x \in RealVars, y \in AuxVars :
              FilterVar_partial_cmp(x, y) = "Less"
        /\ \A x, y \in AuxVars :
              FilterVar_partial_cmp(x, y) = usize_cmp(FilterVar_id(x), FilterVar_id(y))
        /\ \A c \in mroot[2] : \A x, y \in c[2] :
              FilterVar_is_var(x[2]) /\ FilterVar_is_aux(y[2]) => NnfLess(x, y)

\* C26: the real filters get the ids 0..n-1 in the left-to-right order of
\* the leaves, filters[id] being the filter of the leaf; the auxiliaries get
\* the ids from n on, each once; the stored counter is n plus the number of
\* auxiliaries, so that a later pass starts above every id in use.
C26_DenseIds ==
    mphase \in {"new", "transformed", "again"} =>
        LET n == Len(mfilters)
        IN  /\ mfilters = LeavesOf(nnf)
            /\ {FilterVar_id(v) : v \in RealVars} = 0..(n - 1)
            /\ Cardinality(RealVars) = n
            /\ {FilterVar_id(v) : v \in AuxVars} = n..(mcounter - 1)
            /\ mcounter = n + Cardinality(AuxVars)
            /\ mphase = "new" =>
                  /\ mcounter = n
                  /\ \A e \in Assignments :
                        evaluate(nnf, e)[1] =
                            Ok(NnfEval(mroot,
                                       [v \in RealVars |->
                                           Filter_evaluate(mfilters[FilterVar_id(v) + 1], e)[2]]))

\* two passes ran over an expression of three filters or more, the first
\* having made two auxiliaries or more
C26_Witness ==
    /\ mphase = "again"
    /\ Len(mfilters) >= 3
    /\ Cardinality(AuxVars) >= 2

\* the children an operand gives to a node of the connective kind
Flat(n, kind) == IF Kind(n) = kind THEN n[2] ELSE {n}

\* the values left on the stack when the operator was applied
Operands == {nstack[i] : i \in 1..Len(nstack)}

\* C27: | and & flatten an operand of the same connective only and keep the
\* meaning: Or(X) | Or(Y) = Or(X \cup Y), Var | Or(Y) = Or({Var} \cup Y),
\* And(X) & And(Y) = And(X \cup Y), Var & And(Y) = And({Var} \cup Y),
\* Var | And(_) = Or({Var, And(_)}), Var & Or(_) = And({Var, Or(_)}); both
\* are commutative and associative, and the output is true exactly when
\* the disjunction (the conjunction) of the operands is.
C27_OperatorsFlatten ==
    nop # Nil =>
        LET l == nop[2]
            r == nop[3]
            out == nop[4]
        IN  IF nop[1] = "BitOr"
            THEN /\ Kind(l) = "Or" /\ Kind(r) = "Or" => out = Nnf_Or(l[2] \cup r[2])
                 /\ Kind(l) = "Var" /\ Kind(r) = "Or" => out = Nnf_Or({l} \cup r[2])
                 /\ Kind(l) = "Var" /\ Kind(r) = "And" => out = Nnf_Or({l, r})
                 /\ out = Nnf_Or(Flat(l, "Or") \cup Flat(r, "Or"))
                 /\ bitor(r, l) = out
                 /\ \A z \in Operands : bitor(out, z) = bitor(l, bitor(r, z))
                 /\ \A a \in [1..NumVars -> BOOLEAN] :
                       NnfEval(out, a) <=> (NnfEval(l, a) \/ NnfEval(r, a))
            ELSE /\ Kind(l) = "And" /\ Kind(r) = "And" => out = Nnf_And(l[2] \cup r[2])
                 /\ Kind(l) = "Var" /\ Kind(r) = "And" => out = Nnf_And({l} \cup r[2])
                 /\ Kind(l) = "Var" /\ Kind(r) = "Or" => out = Nnf_And({l, r})
                 /\ out = Nnf_And(Flat(l, "And") \cup Flat(r, "And"))
                 /\ bitand(r, l) = out
                 /\ \A z \in Operands : bitand(out, z) = bitand(l, bitand(r, z))
                 /\ \A a \in [1..NumVars -> BOOLEAN] :
                       NnfEval(out, a) <=> (NnfEval(l, a) /\ NnfEval(r, a))

\* a conjunction was joined with a disjunction, a third value being there
C27_Witness ==
    /\ nop # Nil
    /\ nop[1] = "BitAnd"
    /\ Kind(nop[2]) = "And" /\ nop[2][2] # {}
    /\ Kind(nop[3]) = "Or" /\ nop[3][2] # {}
    /\ Len(nstack) >= 3

(***************************************************************************)
(* Properties of the pipeline.                                             *)
(***************************************************************************)
\* the messages about entry e that were sent, in the channel or received
MessagesFor(e) ==
    LET About(m) == m[1] # "Init" /\ m[3] = e
    IN  SelectSeq(recvd \o chan, About)

\* C5, as the code has it: a result of true produces exactly one Success
\* message for the entry, an IoError of kind TimedOut exactly one Error
\* message, and every other outcome (false, an IoError of another kind,
\* NotAFile, a walker error entry) no message; the callback returns Continue.
C5_MessagePerOutcome ==
    \A r \in evald :
        LET ms == MessagesFor(r[1])
        IN  /\ r[3] = "Continue"
            /\ r[2] = "True" => Len(ms) = 1 /\ ms[1][1] = "Success"
            /\ r[2] = "TimedOut" => Len(ms) = 1 /\ ms[1][1] = "Error"
            /\ r[2] \notin {"True", "TimedOut"} => ms = <<>>

\* an entry whose evaluation failed with an IoError that is no timeout
C5_Witness ==
    /\ \E r \in evald : r[2] = "IoOther" /\ MessagesFor(r[1]) = <<>>
    /\ \E r \in evald : r[2] = "TimedOut" /\ Len(MessagesFor(r[1])) = 1

\* C5, as the specification has it: an evaluation that fails with a timeout
\* or with an IO error produces exactly one Error message for the entry.
C5_AnyIoErrorIsReported ==
    \A r \in evald :
        LET ms == MessagesFor(r[1])
        IN  r[2] \in {"TimedOut", "IoOther"} => Len(ms) = 1 /\ ms[1][1] = "Error"

C7_SecondSigintExits ==
    handlerRuns >= 2 => mainPc = "exited" /\ exitCode = 130

\* C8: the consumer runs concurrently with the producers: while a producer
\* is still walking, a Success message in the channel has a consumer thread
\* to receive it.
C8_ConsumerRunsDuringWalk ==
    (/\ \E p \in Producers : prod[p].pc \in {"idle", "eval"}
     /\ \E i \in 1..Len(chan) : chan[i][1] = "Success")
        => cons # "none"

\* what the code does instead: nothing is received before the walk is over
NothingReceivedDuringWalk ==
    (\E p \in Producers : prod[p].pc # "done") => recvd = <<>> /\ cons = "none"

NothingReceivedDuringWalk_Witness ==
    /\ \E p \in Producers : prod[p].pc = "eval"
    /\ \E i \in 1..Len(chan) : chan[i][1] = "Success"

(***************************************************************************)
(* Properties of the parser.                                               *)
(***************************************************************************)
\* the leaves of a tree, unvisited to right
RECURSIVE LeafIds(_)
LeafIds(n) ==
    CASE Kind(n) = "Leaf" -> <<n[2]>>
      [] Kind(n) = "Not" -> LeafIds(n[2])
      [] OTHER -> LeafIds(n[2]) \o LeafIds(n[3])

\* the positions of the leaf tokens of the input, unvisited to right
RECURSIVE LeafPositions(_, _)
LeafPositions(ts, i) ==
    IF i > Len(ts) THEN <<>>
    ELSE (IF ts[i] \in {"leaf", "ordleaf"} THEN <<i>> ELSE <<>>) \o LeafPositions(ts, i + 1)

L(i) == Leaf(i, "Eq")

\* C10: `not` binds tightest, then `and`, then `or`, and parentheses
\* override: `a or b and c` is Or(a, And(b, c)), `a and b or c` is
\* Or(And(a, b), c), `not a and b` is And(Not(a), b), `not (a or b)` is
\* Not(Or(a, b)); the leaves of every parsed tree are those of the input, in
\* source order.
C10_Precedence ==
    pphase = "parsed" =>
        /\ toks = <<"leaf", "or", "leaf", "and", "leaf">>
              => parsed = Ok(Or(L(1), And(L(3), L(5))))
        /\ toks = <<"leaf", "and", "leaf", "or", "leaf">>
              => parsed = Ok(Or(And(L(1), L(3)), L(5)))
        /\ toks = <<"not", "leaf", "and", "leaf">>
              => parsed = Ok(And(Not(L(2)), L(4)))
        /\ toks = <<"not", "(", "leaf", "or", "leaf", ")">>
              => parsed = Ok(Not(Or(L(3), L(5))))
        /\ parsed[1] = "Ok" => LeafIds(parsed[2]) = LeafPositions(toks, 1)

\* `a and b or c` was parsed
C10_Witness ==
    /\ pphase = "parsed"
    /\ toks = <<"leaf", "and", "leaf", "or", "leaf">>
    /\ parsed[1] = "Ok"

\* C11: a leaf whose attribute is name, extension or contains and whose
\* comparison is one of <, >, <=, >= makes parse_root fail wherever it occurs
\* in the input; no other branch of the parser recovers from it.
C11_OrderingOnPatternFails ==
    /\ \A a \in {"Name", "Extension", "Contains"}, c \in {"Lt", "Gt", "Lte", "Gte"} :
          AttributeToken_parse(a, c, 1)[1] = "failure"
    /\ pphase = "parsed" /\ (\E i \in 1..Len(toks) : toks[i] = "ordleaf")
          => parsed[1] = "Err"

\* `name > foo` was parsed after an `or`, under a `not`, inside parentheses
C11_Witness ==
    /\ pphase = "parsed"
    /\ toks = <<"leaf", "or", "not", "(", "ordleaf", ")">>
    /\ parsed = Err(<<"NomError">>)

\* how often token t occurs in ts
Occurrences(ts, t) == Cardinality({i \in 1..Len(ts) : ts[i] = t})

\* how many nodes of kind k the tree n has
RECURSIVE Nodes(_, _)
Nodes(n, k) ==
    (IF Kind(n) = k THEN 1 ELSE 0)
        + CASE Kind(n) = "Leaf" -> 0
            [] Kind(n) = "Not" -> Nodes(n[2], k)
            [] OTHER -> Nodes(n[2], k) + Nodes(n[3], k)

\* C12: parse_root returns Ok only if the whole input was consumed: the tree
\* then holds every leaf and every operator of the input; if a prefix parses
\* as an expression and input remains, it returns SomeTokensWereNotParsed
\* with the remainder, never the partial tree.
C12_WholeInputOrError ==
    pphase = "parsed" =>
        LET R == parse_or(toks, 1)
        IN  /\ parsed[1] = "Ok" =>
                  /\ R[1] = "ok" /\ R[3] = Len(toks) + 1
                  /\ LeafIds(parsed[2]) = LeafPositions(toks, 1)
                  /\ Nodes(parsed[2], "And") = Occurrences(toks, "and")
                  /\ Nodes(parsed[2], "Or") = Occurrences(toks, "or")
                  /\ Nodes(parsed[2], "Not") = Occurrences(toks, "not")
                  /\ Occurrences(toks, "(") = Occurrences(toks, ")")
            /\ R[1] = "ok" /\ R[3] <= Len(toks) =>
                  parsed = Err(<<"SomeTokensWereNotParsed", SubSeq(toks, R[3], Len(toks))>>)

\* a leaf parsed and `) and leaf` remained
C12_Witness ==
    /\ pphase = "parsed"
    /\ toks = <<"leaf", ")", "and", "leaf">>
    /\ parsed = Err(<<"SomeTokensWereNotParsed", <<")", "and", "leaf">>>>)

\* C23: the tree handed to spawn_senders is the NNF of the parsed
\* expression: it contains no Not node.
C23_ProducersEvaluateNnf ==
    LET config == Config_build(toks) IN
    (pphase = "parsed" /\ ~IsErr(config)) =>
        /\ parsed = config
        /\ \A s \in SubTrees(root_node(config[2])) : Kind(s) # "Not"

\* the entries whose evaluation gave true
TrueEntries == {t[1] : t \in {x \in evald : x[2] = "True"}}

\* the producer whose callback visited the entry
ProducerOf(e) ==
    CHOOSE p \in Producers : \E k \in 1..Len(recvd) : recvd[k] = Success(p, e)

OutputComplete ==
    /\ \A e \in TrueEntries :
          Cardinality({i \in 1..Len(stdout) : stdout[i] = e}) = 1
    /\ \A i \in 1..Len(stdout) : stdout[i] \in TrueEntries
    /\ \A i, j \in 1..Len(stdout) :
          i < j /\ ProducerOf(stdout[i]) = ProducerOf(stdout[j])
              => stdout[i] < stdout[j]

\* C29: when the consumer returns 0, every entry for which the predicate
\* gave true has been written to stdout once, the paths of one producer are
\* in the order of its visits, and nothing else has been written to stdout.
C29_ExitZeroOutputComplete ==
    cons = "ret0" => OutputComplete /\ ~pending

\* with the '\n' separator every line goes through as it is written, and
\* the output is complete when the consumer returns 0
CompleteUnlessBuffered ==
    (cons = "ret0" /\ ~print0) => OutputComplete /\ ~pending

\* two producers had entries written, and the consumer returned 0
CompleteUnlessBuffered_Witness ==
    /\ cons = "ret0"
    /\ ~print0
    /\ Len(stdout) >= 3
    /\ \E i, j \in 1..Len(stdout) : ProducerOf(stdout[i]) # ProducerOf(stdout[j])

\* C30: the walk being finite and every evaluation returning, the consumer
\* thread ends in every interleaving with signals, failed sends and failed
\* writes: it returns 0 once the channel is closed and drained, or 1 once it
\* reads a status that is not InProgress.  (A second SIGINT ends the whole
\* process with 130.)
C30_ConsumerTerminates ==
    (mainPc = "walk") ~> (cons \in {"ret0", "ret1"} \/ exitCode = 130)

\* the consumer never waits for ever: it returns, or it panics at the
\* flush of an Init message
NeverBlocksForever ==
    (mainPc = "walk") ~> (cons \in {"ret0", "ret1", "panicked"} \/ exitCode = 130)

\* the consumer returned 1 after a write to stdout failed
NeverBlocksForever_Witness ==
    /\ cons = "ret1"
    /\ writeFailed
    /\ chan # <<>>

\* C20: a producer evaluates an entry only if it read status = InProgress
\* at the start of that entry, and returns Quit otherwise; after status
\* left InProgress each producer sends at most one further message.
C20_QuitWhenNotInProgress ==
    \A p \in Producers :
        /\ prod[p].pc = "eval" => prod[p].seen = "InProgress"
        /\ prod[p].seen # "InProgress" => prod[p].pc = "done"
        /\ prod[p].late <= 1

\* a producer that had started an entry sent its message after a signal,
\* and another producer quit at its next entry
C20_Witness ==
    /\ status = "Cancelled"
    /\ \E p, q \in Producers :
          /\ p # q
          /\ prod[p].late = 1
          /\ chan # <<>> /\ chan[Len(chan)] = Success(p, prod[p].cur)
          /\ prod[q].pc = "done" /\ prod[q].seen = "Cancelled"
    /\ unvisited > 0

\* C21: the consumer reads status before every receive: once status is not
\* InProgress it handles at most one further message, the one of the
\* receive it had begun, and then terminates; what is still queued is not
\* written.
C21_ConsumerStopsAfterOne ==
    /\ consLate <= 1
    /\ consLate = 1 => cons \in {"check", "ret1", "panicked"}
    /\ cons = "ret1" =>
          \A i \in 1..Len(chan) :
              chan[i][1] = "Success" => \A j \in 1..Len(stdout) : stdout[j] # chan[i][3]

\* a signal arrived between the consumer's check and its receive: the
\* message was written, the consumer returned 1, another is still queued
C21_Witness ==
    /\ cons = "ret1"
    /\ consLate = 1
    /\ status = "Cancelled"
    /\ stdout # <<>>
    /\ \E i \in 1..Len(chan) : chan[i][1] = "Success"

\* C22: status starts as InProgress and changes at three points only: the
\* signal handler sets Cancelled, a producer sets SendError when its send
\* fails, the consumer sets SendError when its write to stdout fails; no
\* step sets it back to InProgress.
HandlerSetsCancelled ==
    sig = "set" /\ sig' = "idle" /\ status' = "Cancelled"

ProducerSendFailed ==
    /\ ~ReceiverAlive
    /\ status' = "SendError"
    /\ \E p \in Producers : prod[p].pc = "eval" /\ prod'[p].pc = "done"

ConsumerWriteFailed ==
    /\ cons = "recv" /\ chan # <<>> /\ Head(chan)[1] = "Success"
    /\ stdout' = stdout
    /\ writeFailed'
    /\ status' = "SendError"

C22_StatusMutationPoints ==
    /\ status = "InProgress"
    /\ [][status' # status =>
            /\ status' # "InProgress"
            /\ HandlerSetsCancelled \/ ProducerSendFailed \/ ConsumerWriteFailed]_vars

\* the consumer's write failed, then a signal arrived: two of the points
C22_Witness ==
    /\ writeFailed
    /\ status = "Cancelled"
    /\ cons = "ret1"

(***************************************************************************)
(* Properties of filter literals.                                          *)
(***************************************************************************)
\* r = n * 1000^k, computed without forming the power
RECURSIVE IsScaled(_, _, _)
IsScaled(r, n, k) ==
    IF k = 0 THEN r = n
    ELSE r % 1000 = 0 /\ IsScaled(r \div 1000, n, k - 1)

\* the exponent the documentation gives each unit
UnitExponent(text) ==
    CASE text \in {"B", "byte", "bytes"} -> 0
      [] text \in {"Kb", "kilobyte", "K"} -> 1
      [] text = "Mb" -> 2
      [] text = "Gb" -> 3
      [] text = "Tb" -> 4

\* C13: a size literal n in Byte, Kilobyte, Megabyte, Gigabyte, Terabyte is
\* accepted by the size parser and denotes n * 1000^k bytes, k = 0..4.
C13_DecimalScaling ==
    lop = "size" =>
        /\ lout # NomError
        /\ lout[3] = lin[1]
        /\ IsScaled(lout[2], lin[2], UnitExponent(lin[3]))

\* C14: an AccessTime or ModificationTime filter written with the signed
\* duration d (negative for `now - x`, positive for `now + x`, zero for
\* `now`) compares the entry's timestamp against NOW + d.
SignedDuration(delta) ==
    IF delta = Nil THEN 0
    ELSE IF delta[1] = "-" THEN -TimeUnit_to_duration(delta[3], delta[2])
    ELSE TimeUnit_to_duration(delta[3], delta[2])

C14_ComparesAgainstNowPlusD ==
    (lop = "time" /\ lin[4] # Nil) =>
        /\ lout[1][2] = SignedDuration(lin[3])
        /\ lout[2] = Ok(Comparison_evaluate(lin[2],
                           Cmp(lin[4][2], NOW + SignedDuration(lin[3]))))

\* C15: a `group` leaf with a numeric id yields a Group filter that compares
\* the entry's gid with the value, a `user` leaf a User filter that compares
\* the uid; the two attributes never give the same variant.
C15_GroupAndUserAreDistinct ==
    lop = "owner" =>
        /\ lout[1][1] = lin[1]
        /\ lout[2] = Ok(Comparison_evaluate(lin[2],
                           Cmp(IF lin[1] = "Group" THEN lin[5] ELSE lin[4],
                               lin[3])))

\* C16: the Extension filter matches its pattern against everything after
\* the first dot of the entry's final component; an entry whose final
\* component has no extension does not match.
FirstDot(file) ==
    LET dots == {i \in 1..Len(file) : file[i] = "."} IN
    IF dots = {} THEN 0 ELSE CHOOSE i \in dots : \A j \in dots : i <= j

\* a file name of non-empty parts separated by single dots
PlainName(file) ==
    /\ file # <<>>
    /\ file[1] # "." /\ file[Len(file)] # "."
    /\ \A i \in 1..(Len(file) - 1) : ~(file[i] = "." /\ file[i + 1] = ".")

C16_AfterFirstDot ==
    (lop = "ext" /\ lin[2] = "Eq" /\ lin[3] # <<>> /\ PlainName(lin[4])) =>
        LET i == FirstDot(lin[4]) IN
        lout[2] = Ok(i # 0 /\ lin[3] = SubSeq(lin[4], i + 1, Len(lin[4])))

\* C28: negating the comparison of a filter complements its evaluation on
\* every entry of any entry type on which both evaluations succeed:
\* evaluate(not f) = ~evaluate(f).
C28_NotComplementsEvaluation ==
    (lop = "not" /\ ~IsErr(lout[1]) /\ ~IsErr(lout[2])) =>
        lout[2][2] = ~lout[1][2]

\* C19: Comparison::negate gives the logical complement and is an
\* involution: negate(c).evaluate(l, r) = ~c.evaluate(l, r) for all l, r of
\* a totally ordered type, and negate(negate(c)) = c.
C19_NegateIsComplement ==
    lop = "negate" =>
        /\ lout[4] = ~lout[3]
        /\ lout[2] = lin[1]

C19_Witness ==
    /\ lop = "negate"
    /\ lin = <<"Lt", 1, 1>>
    /\ lout = <<"Gte", "Lt", FALSE, TRUE>>

====
